---- MODULE Spec2Model ----
(***************************************************************************)
(* Span lifecycle of amplifier-module-hooks-otel: the SpanManager          *)
(* (spans.py), the MetricsRecorder timing maps (metrics.py) and the        *)
(* OTelHook event handlers with their correlation side-tables              *)
(* (__init__.py).                                                          *)
(***************************************************************************)
EXTENDS Integers, Sequences, FiniteSets, TLC

\* ----- bounds -----------------------------------------------------------
MaxSpans == 3
MaxKeys == 1
MaxEvents == 3
MaxHookSpans == 2
MaxNestedSpans == 5
MaxForeign == 1
MaxPayloadSpans == 2
SmallLimit == 2
MaxBlocks == 2
MaxMetricCalls == 4
MaxIterations == 4

\* ----- inputs -----------------------------------------------------------
SessionIds == {"s1", "s2"}
NoSession == ""
SessionArgs == SessionIds \cup {NoSession}
None == 0
NoKey == <<"none", "", "", 0>>
DirectKeys == {<<"key", "", "", i>> : i \in 1..MaxKeys}
KeyArgs == DirectKeys \cup {NoKey}
ErrorArgs == {"", "boom"}
ErrorTypes == {"E"}
ChildNames == {"child"}
ToolNames == {"bash"}
\* identities of payload objects (id(data))
DataIds == {1, 2}
\* the usage field of an llm:response payload: a mapping (or absent), present
\* with the value None, or a value that is not a mapping
UsageArgs == {"mapping", "none", "text"}
\* the untimed event pairs (prompt, plan, approval, cancel) share the shape of
\* the timed ones and are driven with one payload identity
UntimedIds == {1}
\* the free text of an approval denial or a cancellation request
ReasonArgs == {"", "why"}
\* an instant event starts and ends its span within one handler, so its
\* payload identity names a key that is gone when the handler returns
InstantIds == {1}

\* SensitiveDataConfig with its defaults: the master switch and the five
\* granular flags, all on.
SensitiveDataConfig ==
    [filter_sensitive_data |-> TRUE, filter_llm_content |-> TRUE,
     filter_user_input |-> TRUE, filter_tool_parameters |-> TRUE,
     filter_tool_results |-> TRUE, filter_error_messages |-> TRUE]

\* PayloadLimitsConfig with its defaults.
PayloadLimitsConfig ==
    [drop_large_payloads |-> TRUE, max_payload_size |-> 10240,
     max_llm_content_size |-> 5120, max_tool_payload_size |-> 5120,
     max_error_size |-> 2048, include_size_metadata |-> TRUE]

VARIABLES sessions, active_spans, spans,
          pending, fork_parent_map,
          start_times, session_start_times,
          config, last, events, matching, script, alone

vars == <<sessions, active_spans, spans, pending, fork_parent_map,
          start_times, session_start_times, config, last, events, matching,
          script, alone>>

hookVars == <<pending, fork_parent_map, start_times, session_start_times, config,
              script, alone>>

\* ----- small helpers ----------------------------------------------------
Remove(f, k) == [x \in (DOMAIN f) \ {k} |-> f[x]]

Put(f, k, v) == [x \in (DOMAIN f) \cup {k} |-> IF x = k THEN v ELSE f[x]]

Get(f, k) == IF k \in DOMAIN f THEN f[k] ELSE None

Empty == [x \in {} |-> None]

\* ----- the tracing capability (opentelemetry Span / Tracer) -------------
\* tracer.start_span: a span with a parent inherits the parent's trace id, a
\* span without one starts a new trace (identified here by its own span id).
\* sess is the session the span was started for; attrs is its attribute set.
start_span(sp, name, sid, parent, attrs) ==
    Append(sp, [name |-> name, sess |-> sid, parent |-> parent,
                trace |-> IF parent = None THEN Len(sp) + 1 ELSE sp[parent].trace,
                ends |-> 0, status |-> "UNSET", desc |-> "", attrs |-> attrs])

\* span.end(): counted, so that a second end of the same span is visible.
span_end(sp, i) ==
    IF i = None THEN sp ELSE [sp EXCEPT ![i].ends = IF @ < 2 THEN @ + 1 ELSE 2]

\* span.set_status(): ignored on an ended span and once the status is OK.
set_status(sp, i, code, desc) ==
    IF sp[i].ends > 0 \/ sp[i].status = "OK" THEN sp
    ELSE [sp EXCEPT ![i].status = code,
                    ![i].desc = IF code = "ERROR" THEN desc ELSE ""]

\* span.set_attribute() for each attribute: ignored on an ended span.
set_attributes(sp, i, attrs) ==
    IF sp[i].ends > 0 THEN sp
    ELSE [sp EXCEPT ![i].attrs = {a \in @ : a[1] \notin {b[1] : b \in attrs}} \cup attrs]

\* ----- OTelConfig -------------------------------------------------------
\* should_filter that answers for the master switch alone.
should_filter_master(cfg, data_type) == cfg.sensitive_data.filter_sensitive_data

should_filter(cfg, data_type) ==
    IF ~cfg.sensitive_data.filter_sensitive_data THEN FALSE
    ELSE LET filter_map ==
                 [llm_content |-> cfg.sensitive_data.filter_llm_content,
                  user_input |-> cfg.sensitive_data.filter_user_input,
                  tool_parameters |-> cfg.sensitive_data.filter_tool_parameters,
                  tool_results |-> cfg.sensitive_data.filter_tool_results,
                  error_messages |-> cfg.sensitive_data.filter_error_messages]
         IN IF data_type \in DOMAIN filter_map THEN filter_map[data_type] ELSE TRUE

\* len(content.encode("utf-8")): one byte for an ASCII character, two for
\* "é", three for "€".
Utf8Width(c) == IF c = "é" THEN 2 ELSE IF c = "€" THEN 3 ELSE 1

\* the sum of the characters' widths: each character counts once for every
\* byte it has
utf8_len(content) ==
    LET Wider(w) == {i \in 1..Len(content) : Utf8Width(SubSeq(content, i, i)) >= w}
    IN Cardinality(Wider(1)) + Cardinality(Wider(2)) + Cardinality(Wider(3))

get_payload_limit(cfg, payload_type) ==
    LET limit_map == [llm_content |-> cfg.payload_limits.max_llm_content_size,
                      tool_payload |-> cfg.payload_limits.max_tool_payload_size,
                      error |-> cfg.payload_limits.max_error_size,
                      default |-> cfg.payload_limits.max_payload_size]
    IN IF payload_type \in DOMAIN limit_map THEN limit_map[payload_type]
       ELSE cfg.payload_limits.max_payload_size

PAYLOAD_DROPPED_PLACEHOLDER(size, limit) ==
    "[PAYLOAD_DROPPED: size=" \o ToString(size) \o " bytes, limit="
        \o ToString(limit) \o " bytes]"

PAYLOAD_TRUNCATED_SUFFIX(truncated) ==
    "...[TRUNCATED: " \o ToString(truncated) \o " bytes removed]"

\* the truncation that cuts the last 100 characters once
truncate_once(truncated_content, limit) ==
    IF utf8_len(truncated_content) > limit
    THEN SubSeq(truncated_content, 1, Len(truncated_content) - 100)
    ELSE truncated_content

\* while len(truncated_content.encode("utf-8")) > limit:
\*     truncated_content = truncated_content[:-100]
RECURSIVE truncate_loop(_, _)
truncate_loop(truncated_content, limit) ==
    IF utf8_len(truncated_content) > limit
    THEN truncate_loop(SubSeq(truncated_content, 1, Len(truncated_content) - 100), limit)
    ELSE truncated_content

Processed(content, metadata) == [content |-> content, metadata |-> metadata]

\* process_payload that compares the number of characters with the limit
process_payload_chars(cfg, content, payload_type) ==
    LET content_bytes == utf8_len(content)
        limit == get_payload_limit(cfg, payload_type)
        metadata == IF cfg.payload_limits.include_size_metadata
                    THEN {<<"payload.original_size", content_bytes>>,
                          <<"payload.limit", limit>>,
                          <<"payload.truncated", TRUE>>}
                    ELSE {}
    IN IF content = "" THEN Processed(content, {})
       ELSE IF Len(content) <= limit THEN Processed(content, {})
       ELSE IF cfg.payload_limits.drop_large_payloads
       THEN Processed(PAYLOAD_DROPPED_PLACEHOLDER(content_bytes, limit), metadata)
       ELSE LET truncated_content == truncate_loop(content, limit)
                bytes_removed == content_bytes - utf8_len(truncated_content)
            IN Processed(truncated_content \o PAYLOAD_TRUNCATED_SUFFIX(bytes_removed),
                         metadata)

process_payload(cfg, content, payload_type) ==
    LET content_bytes == utf8_len(content)
        limit == get_payload_limit(cfg, payload_type)
        metadata == IF cfg.payload_limits.include_size_metadata
                    THEN {<<"payload.original_size", content_bytes>>,
                          <<"payload.limit", limit>>,
                          <<"payload.truncated", TRUE>>}
                    ELSE {}
    IN IF content = "" THEN Processed(content, {})
       ELSE IF content_bytes <= limit THEN Processed(content, {})
       ELSE IF cfg.payload_limits.drop_large_payloads
       THEN Processed(PAYLOAD_DROPPED_PLACEHOLDER(content_bytes, limit), metadata)
       ELSE LET truncated_content == truncate_loop(content, limit)
                bytes_removed == content_bytes - utf8_len(truncated_content)
            IN Processed(truncated_content \o PAYLOAD_TRUNCATED_SUFFIX(bytes_removed),
                         metadata)

\* ----- SpanManager payload governance ----------------------------------
FILTERED_PLACEHOLDER == "[FILTERED]"

\* SpanManager._config is None
NoConfig == [none |-> TRUE]

_should_filter(cfg, data_type) ==
    IF cfg = NoConfig THEN TRUE ELSE should_filter(cfg, data_type)

_process_payload(cfg, content, payload_type) ==
    IF cfg = NoConfig
    THEN IF Len(content) > 1000
         THEN Processed(SubSeq(content, 1, 1000) \o "...[truncated]", {})
         ELSE Processed(content, {})
    ELSE process_payload(cfg, content, payload_type)

\* attributes[f"<prefix>.{key.split('.')[-1]}"] = value
Suffixed(prefix, metadata) ==
    {<<prefix \o "." \o SubSeq(a[1], Len("payload.") + 1, Len(a[1])), a[2]>> : a \in metadata}

\* an optional argument: <<>> for None, <<v>> for the value v
Absent == <<>>

Given(v) == <<v>>

\* ----- SessionSpanContext ----------------------------------------------
SessionSpanContext ==
    [root_span |-> None, current_turn |-> None, current_tool |-> None,
     tool_stack |-> <<>>, turn_count |-> 0]

\* ----- SpanManager ------------------------------------------------------
\* A manager state m is [sessions, active_spans, spans, ret]; every method
\* is an operator from a manager state to the manager state after the call,
\* ret being the value the method returns.
Mgr(S, A, sp, r) == [sessions |-> S, active_spans |-> A, spans |-> sp, ret |-> r]

get_context(S, sid) == IF sid \in DOMAIN S THEN S ELSE Put(S, sid, SessionSpanContext)

get_session_span(S, sid) == IF sid \in DOMAIN S THEN S[sid].root_span ELSE None

get_active_span(A, key) == Get(A, key)

\* start_session_span that never links the new root to the parent session.
start_session_span_nolink(m, sid, attributes, parent_sid) ==
    LET S1 == get_context(m.sessions, sid)
        n == Len(m.spans) + 1
    IN Mgr([S1 EXCEPT ![sid].root_span = n, ![sid].turn_count = 0],
           m.active_spans,
           start_span(m.spans, "session", sid, None, attributes),
           n)

start_session_span(m, sid, attributes, parent_sid) ==
    LET S1 == get_context(m.sessions, sid)
        parent_span == IF parent_sid # NoSession /\ parent_sid \in DOMAIN S1
                       THEN S1[parent_sid].root_span ELSE None
        n == Len(m.spans) + 1
    IN Mgr([S1 EXCEPT ![sid].root_span = n, ![sid].turn_count = 0],
           m.active_spans,
           start_span(m.spans, "session", sid, parent_span, attributes),
           n)

RECURSIVE end_all(_, _)
end_all(sp, stack) ==
    IF stack = <<>> THEN sp ELSE end_all(span_end(sp, Head(stack)), Tail(stack))

\* end_session_span that reads the context (get) instead of popping it.
end_session_span_keep(m, sid, error) ==
    IF sid \notin DOMAIN m.sessions THEN Mgr(m.sessions, m.active_spans, m.spans, None)
    ELSE LET ctx == m.sessions[sid]
             sp0 == IF ctx.root_span # None
                    THEN set_attributes(m.spans, ctx.root_span,
                                        {<<"session.status", "completed">>,
                                         <<"session.turns", ctx.turn_count>>})
                    ELSE m.spans
             sp1 == span_end(sp0, ctx.root_span)
             sp2 == span_end(sp1, ctx.current_turn)
             sp3 == end_all(sp2, ctx.tool_stack)
             sp4 == span_end(sp3, ctx.current_tool)
         IN Mgr(m.sessions, m.active_spans, sp4, None)

end_session_span(m, sid, error) ==
    IF sid \notin DOMAIN m.sessions THEN Mgr(m.sessions, m.active_spans, m.spans, None)
    ELSE LET ctx == m.sessions[sid]
             sp0 == IF ctx.root_span # None
                    THEN set_attributes(m.spans, ctx.root_span,
                                        {<<"session.status", "completed">>,
                                         <<"session.turns", ctx.turn_count>>})
                    ELSE m.spans
             sp1 == IF ctx.root_span # None
                    THEN span_end(set_status(sp0, ctx.root_span,
                                             IF error # "" THEN "ERROR" ELSE "OK", error),
                                  ctx.root_span)
                    ELSE m.spans
             sp2 == span_end(sp1, ctx.current_turn)
             sp3 == end_all(sp2, ctx.tool_stack)
             sp4 == span_end(sp3, ctx.current_tool)
         IN Mgr(Remove(m.sessions, sid), m.active_spans, sp4, None)

\* start_turn_span that forgets to end the previous turn span.
start_turn_span_noend(m, sid) ==
    LET S1 == get_context(m.sessions, sid)
        ctx == S1[sid]
        n == Len(m.spans) + 1
    IN IF ctx.root_span = None THEN Mgr(S1, m.active_spans, m.spans, None)
       ELSE Mgr([S1 EXCEPT ![sid].turn_count = @ + 1, ![sid].current_turn = n],
                m.active_spans,
                start_span(m.spans, "turn", sid, ctx.root_span,
                           {<<"amplifier.turn.number", ctx.turn_count + 1>>}),
                n)

\* start_turn_span that numbers the turn without counting it.
start_turn_span_nocount(m, sid) ==
    LET S1 == get_context(m.sessions, sid)
        ctx == S1[sid]
        n == Len(m.spans) + 1
    IN IF ctx.root_span = None THEN Mgr(S1, m.active_spans, m.spans, None)
       ELSE Mgr([S1 EXCEPT ![sid].current_turn = n],
                m.active_spans,
                start_span(span_end(m.spans, ctx.current_turn), "turn", sid, ctx.root_span,
                           {<<"amplifier.turn.number", ctx.turn_count + 1>>}),
                n)

start_turn_span(m, sid) ==
    LET S1 == get_context(m.sessions, sid)
        ctx == S1[sid]
        n == Len(m.spans) + 1
    IN IF ctx.root_span = None THEN Mgr(S1, m.active_spans, m.spans, None)
       ELSE Mgr([S1 EXCEPT ![sid].turn_count = @ + 1, ![sid].current_turn = n],
                m.active_spans,
                start_span(span_end(m.spans, ctx.current_turn), "turn", sid, ctx.root_span,
                           {<<"amplifier.turn.number", ctx.turn_count + 1>>}),
                n)

\* end_turn_span that gets the context with _get_context (creating it).
end_turn_span_create(m, sid) ==
    LET S1 == get_context(m.sessions, sid)
    IN IF S1[sid].current_turn # None
       THEN Mgr([S1 EXCEPT ![sid].current_turn = None],
                m.active_spans,
                span_end(m.spans, S1[sid].current_turn),
                None)
       ELSE Mgr(S1, m.active_spans, m.spans, None)

end_turn_span(m, sid) ==
    IF sid \in DOMAIN m.sessions /\ m.sessions[sid].current_turn # None
    THEN Mgr([m.sessions EXCEPT ![sid].current_turn = None],
             m.active_spans,
             span_end(m.spans, m.sessions[sid].current_turn),
             None)
    ELSE Mgr(m.sessions, m.active_spans, m.spans, None)

\* tool_input is Absent or Given(str(tool_input)).
\* The input attributes that let size governance speak before the filter.
tool_input_attributes_sizefirst(cfg, tool_input) ==
    IF tool_input = Absent THEN {}
    ELSE LET p == _process_payload(cfg, tool_input[1], "tool_payload")
         IN IF _should_filter(cfg, "tool_parameters") /\ p.metadata = {} /\ p.content = tool_input[1]
            THEN {<<"tool.has_input", TRUE>>, <<"tool.input", FILTERED_PLACEHOLDER>>}
            ELSE {<<"tool.input", p.content>>} \cup Suffixed("tool.input", p.metadata)

tool_input_attributes(cfg, tool_input) ==
    IF tool_input = Absent THEN {}
    ELSE IF _should_filter(cfg, "tool_parameters")
    THEN {<<"tool.has_input", TRUE>>, <<"tool.input", FILTERED_PLACEHOLDER>>}
    ELSE LET p == _process_payload(cfg, tool_input[1], "tool_payload")
         IN {<<"tool.input", p.content>>} \cup Suffixed("tool.input", p.metadata)

\* result is Absent or Given(str(result)).
tool_result_attributes(cfg, result) ==
    IF result = Absent THEN {}
    ELSE IF _should_filter(cfg, "tool_results")
    THEN {<<"tool.has_result", TRUE>>, <<"tool.result", FILTERED_PLACEHOLDER>>}
    ELSE LET p == _process_payload(cfg, result[1], "tool_payload")
         IN {<<"tool.result", p.content>>} \cup Suffixed("tool.result", p.metadata)

\* the status end_tool_span sets: error "" is no error
tool_status(sp, span, cfg, error) ==
    IF error # ""
    THEN set_status(sp, span, "ERROR",
                    IF _should_filter(cfg, "error_messages") THEN FILTERED_PLACEHOLDER
                    ELSE _process_payload(cfg, error, "error").content)
    ELSE set_status(sp, span, "OK", "")

start_tool_span(m, cfg, sid, tool_name, tool_input, key) ==
    LET S1 == get_context(m.sessions, sid)
        ctx == S1[sid]
        parent == IF ctx.current_tool # None THEN ctx.current_tool
                  ELSE IF ctx.current_turn # None THEN ctx.current_turn
                  ELSE ctx.root_span
        n == Len(m.spans) + 1
        stack == IF ctx.current_tool # None
                 THEN Append(ctx.tool_stack, ctx.current_tool) ELSE ctx.tool_stack
    IN IF parent = None THEN Mgr(S1, m.active_spans, m.spans, None)
       ELSE Mgr([S1 EXCEPT ![sid].tool_stack = stack, ![sid].current_tool = n],
                IF key # NoKey THEN Put(m.active_spans, key, n) ELSE m.active_spans,
                start_span(m.spans, "tool", sid, parent,
                           {<<"tool.name", tool_name>>}
                               \cup tool_input_attributes(cfg, tool_input)),
                n)

\* end_tool_span that clears current_tool instead of restoring the paused tool.
end_tool_span_nopop(m, cfg, sid, key, success, result, error) ==
    LET hasCtx == sid \in DOMAIN m.sessions
        byKey == IF key # NoKey THEN Get(m.active_spans, key) ELSE None
        A1 == IF key # NoKey THEN Remove(m.active_spans, key) ELSE m.active_spans
        span == IF byKey = None /\ hasCtx THEN m.sessions[sid].current_tool ELSE byKey
    IN IF span = None THEN Mgr(m.sessions, A1, m.spans, None)
       ELSE Mgr(IF hasCtx THEN [m.sessions EXCEPT ![sid].current_tool = None]
                ELSE m.sessions,
                A1,
                span_end(tool_status(
                             set_attributes(m.spans, span,
                                            {<<"tool.success", success>>}
                                                \cup tool_result_attributes(cfg, result)),
                             span, cfg, error), span),
                None)

end_tool_span(m, cfg, sid, key, success, result, error) ==
    LET hasCtx == sid \in DOMAIN m.sessions
        byKey == IF key # NoKey THEN Get(m.active_spans, key) ELSE None
        A1 == IF key # NoKey THEN Remove(m.active_spans, key) ELSE m.active_spans
        span == IF byKey = None /\ hasCtx THEN m.sessions[sid].current_tool ELSE byKey
    IN IF span = None THEN Mgr(m.sessions, A1, m.spans, None)
       ELSE LET sp1 == tool_status(
                           set_attributes(m.spans, span,
                                          {<<"tool.success", success>>}
                                              \cup tool_result_attributes(cfg, result)),
                           span, cfg, error)
                S1 == IF hasCtx
                      THEN LET st == m.sessions[sid].tool_stack
                           IN [m.sessions EXCEPT
                                 ![sid].current_tool =
                                     IF st # <<>> THEN st[Len(st)] ELSE None,
                                 ![sid].tool_stack =
                                     IF st # <<>> THEN SubSeq(st, 1, Len(st) - 1) ELSE st]
                      ELSE m.sessions
            IN Mgr(S1, A1, span_end(sp1, span), None)

\* start_child_span that nests under the current tool when there is one.
start_child_span_undertool(m, sid, name, attributes, key) ==
    IF sid \notin DOMAIN m.sessions THEN Mgr(m.sessions, m.active_spans, m.spans, None)
    ELSE LET ctx == m.sessions[sid]
             parent == IF ctx.current_tool # None THEN ctx.current_tool
                       ELSE IF ctx.current_turn # None THEN ctx.current_turn
                       ELSE ctx.root_span
             n == Len(m.spans) + 1
         IN IF parent = None THEN Mgr(m.sessions, m.active_spans, m.spans, None)
            ELSE Mgr(m.sessions,
                     IF key # NoKey THEN Put(m.active_spans, key, n) ELSE m.active_spans,
                     start_span(m.spans, name, sid, parent, attributes),
                     n)

start_child_span(m, sid, name, attributes, key) ==
    IF sid \notin DOMAIN m.sessions THEN Mgr(m.sessions, m.active_spans, m.spans, None)
    ELSE LET ctx == m.sessions[sid]
             parent == IF ctx.current_turn # None THEN ctx.current_turn ELSE ctx.root_span
             n == Len(m.spans) + 1
         IN IF parent = None THEN Mgr(m.sessions, m.active_spans, m.spans, None)
            ELSE Mgr(m.sessions,
                     IF key # NoKey THEN Put(m.active_spans, key, n) ELSE m.active_spans,
                     start_span(m.spans, name, sid, parent, attributes),
                     n)

end_child_span(m, key, status, error_message) ==
    LET span == Get(m.active_spans, key)
    IN IF span = None THEN Mgr(m.sessions, m.active_spans, m.spans, None)
       ELSE Mgr(m.sessions,
                Remove(m.active_spans, key),
                span_end(IF status = "ERROR"
                         THEN set_status(m.spans, span, "ERROR",
                                         IF error_message # "" THEN error_message ELSE "Error")
                         ELSE m.spans,
                         span),
                None)

\* ----- state ------------------------------------------------------------
Cur == Mgr(sessions, active_spans, spans, None)

Apply(m) ==
    /\ sessions' = m.sessions
    /\ active_spans' = m.active_spans
    /\ spans' = m.spans

NoLast == [op |-> "init", arg |-> <<>>, ret |-> "", written |-> {}]

Families == {"llm", "tool", "prompt", "plan", "approval", "cancel"}

InitSide ==
    /\ pending = [f \in Families |-> Empty]
    /\ fork_parent_map = Empty
    /\ start_times = {}
    /\ session_start_times = {}
    /\ last = NoLast
    /\ events = 0
    /\ matching = <<>>
    /\ script = <<>>
    /\ alone = <<>>

InitTables ==
    /\ sessions = Empty
    /\ active_spans = Empty
    /\ spans = <<>>
    /\ InitSide

\* A SpanManager built on its own, as the unit tests build it.
Init ==
    /\ InitTables
    /\ config = [enabled |-> TRUE, traces |-> TRUE, metrics |-> FALSE, sensitive_data |-> SensitiveDataConfig,
                 payload_limits |-> PayloadLimitsConfig]

CanStart == Len(spans) < MaxSpans

\* ----- the SpanManager called directly ---------------------------------
StartSessionSpan(sid, parent_sid) ==
    /\ CanStart
    /\ Apply(start_session_span(Cur, sid, {}, parent_sid))
    /\ UNCHANGED <<hookVars, last, events, matching>>

EndSessionSpan(sid, error) ==
    /\ Apply(end_session_span(Cur, sid, error))
    /\ UNCHANGED <<hookVars, last, events, matching>>

StartTurnSpan(sid) ==
    /\ CanStart
    /\ Apply(start_turn_span(Cur, sid))
    /\ UNCHANGED <<hookVars, last, events, matching>>

EndTurnSpan(sid) ==
    /\ Apply(end_turn_span(Cur, sid))
    /\ UNCHANGED <<hookVars, last, events, matching>>

StartToolSpan(sid, tool_name, tool_input, key) ==
    /\ CanStart
    /\ Apply(start_tool_span(Cur, config, sid, tool_name, tool_input, key))
    /\ UNCHANGED <<hookVars, last, events, matching>>

EndToolSpan(sid, key, result, error) ==
    /\ Apply(end_tool_span(Cur, config, sid, key, error = "", result, error))
    /\ UNCHANGED <<hookVars, last, events, matching>>

StartChildSpan(sid, name, key) ==
    /\ CanStart
    /\ Apply(start_child_span(Cur, sid, name, {}, key))
    /\ UNCHANGED <<hookVars, last, events, matching>>

EndChildSpan(key, status, error_message) ==
    /\ Apply(end_child_span(Cur, key, status, error_message))
    /\ UNCHANGED <<hookVars, last, events, matching>>

Next ==
    \/ \E sid \in SessionIds, p \in SessionArgs : StartSessionSpan(sid, p)
    \/ \E sid \in SessionIds : EndSessionSpan(sid, "")
    \/ \E sid \in SessionIds : StartTurnSpan(sid)
    \/ \E sid \in SessionIds : EndTurnSpan(sid)
    \/ \E sid \in SessionIds, t \in ToolNames, k \in KeyArgs : StartToolSpan(sid, t, Absent, k)
    \/ \E sid \in SessionIds, k \in KeyArgs : EndToolSpan(sid, k, Absent, "")
    \/ \E sid \in SessionIds, n \in ChildNames, k \in KeyArgs : StartChildSpan(sid, n, k)
    \/ \E k \in DirectKeys, st \in {"OK", "ERROR"} : EndChildSpan(k, st, "")

Spec == Init /\ [][Next]_vars

\* ----- MetricsRecorder timing maps --------------------------------------
start_timing(T, key) == T \cup {key}

\* record_duration that forgets every start time
record_duration_clear(T, key) == {}

record_duration(T, key) == T \ {key}

\* what a timing method returns: the elapsed time when the start entry was
\* there (its value is not modelled), None when it was not
Elapsed == "elapsed"

NoDuration == "None"

\* _get_elapsed: the value popped, as record_duration returns it
record_duration_ret(T, key) == IF key \in T THEN Elapsed ELSE NoDuration

\* the instruments record_duration records on
record_duration_recorded(T, key) ==
    IF key \in T THEN {"gen_ai.client.operation.duration"} ELSE {}

record_session_ended_ret(T, sid) == IF sid \in T THEN Elapsed ELSE NoDuration

\* the instruments record_session_ended records on
record_session_ended_recorded(T, sid) ==
    IF sid \in T THEN {"amplifier.session.duration"} ELSE {}

record_session_started(T, sid) == T \cup {sid}

\* record_session_ended that reads the start time without removing it.
record_session_ended_keep(T, sid) == T

record_session_ended(T, sid) == T \ {sid}

\* ----- AttributeMapper --------------------------------------------------
\* for_error: error.type of the payload's error mapping, "_OTHER" when it
\* has no type
for_error(etype) == {<<"error.type", IF etype # "" THEN etype ELSE "_OTHER">>}

for_session(sid) ==
    {<<"gen_ai.provider.name", "amplifier">>} \cup
    (IF sid # NoSession THEN {<<"amplifier.session.id", sid>>} ELSE {})

for_session_resume(sid) ==
    {<<"gen_ai.provider.name", "amplifier">>, <<"amplifier.session.type", "resume">>} \cup
    (IF sid # NoSession THEN {<<"amplifier.session.id", sid>>} ELSE {})

\* ----- OTelHook ---------------------------------------------------------
\* a correlation key that leaves the session id out
CorrelationKey_nosid(fam, sid, tool, id) == <<fam, "", tool, id>>

\* f"<family>:{session_id}[:{tool_name}]:{id(data)}": id(data) is the identity
\* of the payload object, which the interpreter may hand out again once an
\* earlier payload has been released.
CorrelationKey(fam, sid, tool, id) == <<fam, sid, tool, id>>

\* the guard of the tracing handlers without its traces_enabled half
TracesOn_enabledOnly == config.enabled

TracesOn == config.enabled /\ config.traces

MetricsOn == config.enabled /\ config.metrics

Continue == "continue"

\* closes a scenario's script: nothing is delivered after it
EndOfScript == <<"end of script", NoSession>>

\* The host delivers an event.  script is the sequence of <<event, session>>
\* the host is going to deliver, closed by EndOfScript: the next event is its
\* head.  Where no scenario is played the script is empty and the host
\* delivers any event, MaxEvents of them at most.
Delivered(op, sid) ==
    /\ events' = events + 1
    /\ IF script = <<>>
       THEN events < MaxEvents /\ script' = script
       ELSE Head(script) = <<op, sid>> /\ script' = Tail(script)

HookCanStart == script # <<>> \/ Len(spans) < MaxHookSpans

\* A handler that writes its correlation key back onto the event payload.
Returned_writeback(op, sid) ==
    /\ Delivered(op, sid)
    /\ last' = [op |-> op, arg |-> <<>>, ret |-> Continue, written |-> {"_otel_correlation_key"}]

\* One event delivered to its handler, which returns HookResult(action="continue").
\* last names the event, the returned action and the keys of the payload the
\* handler assigned or deleted: the handlers read data with data.get and pass
\* it to AttributeMapper, which builds new dictionaries; none assigns to it.
Returned(op, sid) ==
    /\ Delivered(op, sid)
    /\ last' = [op |-> op, arg |-> <<>>, ret |-> Continue, written |-> {}]

\* One event delivered to its handler, which lets an exception escape.
Raised(op, sid) ==
    /\ Delivered(op, sid)
    /\ last' = [op |-> op, arg |-> <<>>, ret |-> "raise", written |-> {}]

NoOp == UNCHANGED <<sessions, active_spans, spans, pending, fork_parent_map,
                    start_times, session_start_times>>

\* on_session_start that reads the fork-parent entry (get) instead of popping it.
on_session_start_peek(sid) ==
    /\ HookCanStart
    /\ Returned("session:start", sid)
    /\ UNCHANGED <<config, matching, alone>>
    /\ IF ~config.enabled \/ sid = NoSession THEN NoOp
       ELSE LET parent_session_id == IF sid \in DOMAIN fork_parent_map
                                     THEN fork_parent_map[sid] ELSE NoSession
            IN /\ session_start_times' =
                      IF MetricsOn THEN record_session_started(session_start_times, sid)
                      ELSE session_start_times
               /\ IF config.traces
                  THEN Apply(start_session_span(
                           Cur, sid,
                           for_session(sid) \cup
                               (IF parent_session_id # NoSession
                                THEN {<<"amplifier.session.parent_id", parent_session_id>>}
                                ELSE {}),
                           parent_session_id))
                  ELSE UNCHANGED <<sessions, active_spans, spans>>
               /\ UNCHANGED <<pending, fork_parent_map, start_times>>

on_session_start(sid) ==
    /\ HookCanStart
    /\ Returned("session:start", sid)
    /\ UNCHANGED <<config, matching, alone>>
    /\ IF ~config.enabled \/ sid = NoSession THEN NoOp
       ELSE LET parent_session_id == IF sid \in DOMAIN fork_parent_map
                                     THEN fork_parent_map[sid] ELSE NoSession
            IN /\ fork_parent_map' = Remove(fork_parent_map, sid)
               /\ session_start_times' =
                      IF MetricsOn THEN record_session_started(session_start_times, sid)
                      ELSE session_start_times
               /\ IF config.traces
                  THEN Apply(start_session_span(
                           Cur, sid,
                           for_session(sid) \cup
                               (IF parent_session_id # NoSession
                                THEN {<<"amplifier.session.parent_id", parent_session_id>>}
                                ELSE {}),
                           parent_session_id))
                  ELSE UNCHANGED <<sessions, active_spans, spans>>
               /\ UNCHANGED <<pending, start_times>>

on_session_end(sid) ==
    /\ Returned("session:end", sid)
    /\ UNCHANGED <<config, matching, alone>>
    /\ IF ~config.enabled \/ sid = NoSession THEN NoOp
       ELSE /\ session_start_times' =
                   IF MetricsOn THEN record_session_ended(session_start_times, sid)
                   ELSE session_start_times
            /\ IF config.traces
               THEN Apply(end_session_span(Cur, sid, ""))
               ELSE UNCHANGED <<sessions, active_spans, spans>>
            /\ UNCHANGED <<pending, fork_parent_map, start_times>>

\* on_execution_start that starts no turn span.
on_execution_start_noturn(sid) ==
    /\ HookCanStart
    /\ Returned("execution:start", sid)
    /\ UNCHANGED <<config, matching, alone>>
    /\ NoOp

on_execution_start(sid) ==
    /\ HookCanStart
    /\ Returned("execution:start", sid)
    /\ UNCHANGED <<config, matching, alone>>
    /\ IF ~TracesOn \/ sid = NoSession THEN NoOp
       ELSE /\ Apply(start_turn_span(Cur, sid))
            /\ UNCHANGED <<pending, fork_parent_map, start_times, session_start_times>>

on_execution_end(sid) ==
    /\ Returned("execution:end", sid)
    /\ UNCHANGED <<config, matching, alone>>
    /\ IF ~config.enabled \/ sid = NoSession THEN NoOp
       ELSE /\ IF config.traces
               THEN Apply(end_turn_span(Cur, sid))
               ELSE UNCHANGED <<sessions, active_spans, spans>>
            /\ UNCHANGED <<pending, fork_parent_map, start_times, session_start_times>>

\* StartPending without the check for a missing session id.
StartPending_nosid(fam, name, sid, tool, id, timed) ==
    IF ~TracesOn THEN NoOp
    ELSE LET correlation_key == CorrelationKey(fam, sid, tool, id)
         IN /\ Apply(start_child_span(Cur, sid, name, {}, correlation_key))
            /\ start_times' = IF timed /\ MetricsOn
                              THEN start_timing(start_times, correlation_key)
                              ELSE start_times
            /\ pending' = [pending EXCEPT ![fam] = Put(@, sid, correlation_key)]
            /\ UNCHANGED <<fork_parent_map, session_start_times>>

\* The shape shared by the start handlers of the six event-pair families:
\* start a child span under a fresh correlation key, time it when the family
\* is timed, and remember the key as the session's pending one.
StartPending(fam, name, sid, tool, id, timed) ==
    IF ~TracesOn \/ sid = NoSession THEN NoOp
    ELSE LET correlation_key == CorrelationKey(fam, sid, tool, id)
         IN /\ Apply(start_child_span(Cur, sid, name, {}, correlation_key))
            /\ start_times' = IF timed /\ MetricsOn
                              THEN start_timing(start_times, correlation_key)
                              ELSE start_times
            /\ pending' = [pending EXCEPT ![fam] = Put(@, sid, correlation_key)]
            /\ UNCHANGED <<fork_parent_map, session_start_times>>

\* EndPending that reads the pending key (get) instead of popping it.
EndPending_peek(fam, sid, status, error_message, timed) ==
    IF ~TracesOn THEN NoOp
    ELSE LET correlation_key == IF sid # NoSession /\ sid \in DOMAIN pending[fam]
                                  THEN pending[fam][sid] ELSE NoKey
         IN IF correlation_key = NoKey THEN NoOp
            ELSE /\ Apply(end_child_span(Cur, correlation_key, status, error_message))
                 /\ start_times' = IF timed /\ MetricsOn
                                   THEN record_duration(start_times, correlation_key)
                                   ELSE start_times
                 /\ UNCHANGED <<pending, fork_parent_map, session_start_times>>

\* The shape shared by the end handlers: pop the session's pending key and,
\* when there is one, end the span registered under it.
EndPending(fam, sid, status, error_message, timed) ==
    IF ~TracesOn THEN NoOp
    ELSE LET correlation_key == IF sid # NoSession /\ sid \in DOMAIN pending[fam]
                                  THEN pending[fam][sid] ELSE NoKey
         IN IF correlation_key = NoKey THEN NoOp
            ELSE /\ pending' = [pending EXCEPT ![fam] = Remove(@, sid)]
                 /\ Apply(end_child_span(Cur, correlation_key, status, error_message))
                 /\ start_times' = IF timed /\ MetricsOn
                                   THEN record_duration(start_times, correlation_key)
                                   ELSE start_times
                 /\ UNCHANGED <<fork_parent_map, session_start_times>>

\* the status description taken from the payload whatever the filter says
ErrorMessage_unfiltered(msg, default) ==
    IF msg # "" THEN msg ELSE default

ErrorMessage(msg, default) ==
    IF should_filter(config, "error_messages") THEN "[FILTERED]"
    ELSE IF msg # "" THEN msg ELSE default

on_llm_request(sid, id) ==
    /\ HookCanStart
    /\ Returned("llm:request", sid)
    /\ UNCHANGED <<config, matching, alone>>
    /\ StartPending("llm", "chat", sid, "", id, TRUE)

\* usage.get(...) is called on the payload's usage value as it is: by
\* AttributeMapper.for_llm_response when the span exists and usage is truthy,
\* and by the metrics branch after the span has ended and record_duration has
\* run.  On a value without .get the AttributeError leaves the handler.
on_llm_response(sid, usage) ==
    LET correlation_key == IF TracesOn /\ sid # NoSession /\ sid \in DOMAIN pending["llm"]
                           THEN pending["llm"][sid] ELSE NoKey
        span == IF correlation_key = NoKey THEN None
                ELSE get_active_span(active_spans, correlation_key)
    IN /\ UNCHANGED <<config, matching, alone>>
       /\ IF correlation_key # NoKey /\ span # None /\ usage = "text"
          THEN /\ Raised("llm:response", sid)
               /\ pending' = [pending EXCEPT !["llm"] = Remove(@, sid)]
               /\ UNCHANGED <<sessions, active_spans, spans, fork_parent_map,
                              start_times, session_start_times>>
          ELSE IF correlation_key # NoKey /\ MetricsOn /\ usage # "mapping"
          THEN /\ Raised("llm:response", sid)
               /\ pending' = [pending EXCEPT !["llm"] = Remove(@, sid)]
               /\ Apply(end_child_span(Cur, correlation_key, "OK", ""))
               /\ start_times' = record_duration(start_times, correlation_key)
               /\ UNCHANGED <<fork_parent_map, session_start_times>>
          ELSE /\ Returned("llm:response", sid)
               /\ EndPending("llm", sid, "OK", "", TRUE)

on_provider_error(sid, msg) ==
    /\ Returned("provider:error", sid)
    /\ UNCHANGED <<config, matching, alone>>
    /\ EndPending("llm", sid, "ERROR", ErrorMessage(msg, "Provider error"), FALSE)

on_tool_pre(sid, tool, id) ==
    /\ HookCanStart
    /\ Returned("tool:pre", sid)
    /\ UNCHANGED <<config, matching, alone>>
    /\ StartPending("tool", "execute_tool", sid, tool, id, TRUE)

on_tool_post(sid) ==
    /\ Returned("tool:post", sid)
    /\ UNCHANGED <<config, matching, alone>>
    /\ EndPending("tool", sid, "OK", "", TRUE)

\* tool:error carries error = {type: etype, message: msg} (msg "" when the
\* payload has no message): the error type is set on the span, the message
\* goes through the filter into the status description.
on_tool_error(sid, etype, msg) ==
    /\ Returned("tool:error", sid)
    /\ UNCHANGED <<config, matching, alone>>
    /\ IF ~TracesOn THEN NoOp
       ELSE LET correlation_key == IF sid # NoSession /\ sid \in DOMAIN pending["tool"]
                                     THEN pending["tool"][sid] ELSE NoKey
                span == get_active_span(active_spans, correlation_key)
                m1 == IF span # None
                      THEN Mgr(sessions, active_spans,
                               set_attributes(spans, span, for_error(etype)), None)
                      ELSE Cur
            IN IF correlation_key = NoKey THEN NoOp
               ELSE /\ pending' = [pending EXCEPT !["tool"] = Remove(@, sid)]
                    /\ Apply(end_child_span(m1, correlation_key, "ERROR",
                                            ErrorMessage(msg, "Tool error")))
                    /\ start_times' = IF MetricsOn
                                      THEN record_duration(start_times, correlation_key)
                                      ELSE start_times
                    /\ UNCHANGED <<fork_parent_map, session_start_times>>

on_session_fork(sid, parent) ==
    /\ Returned("session:fork", sid)
    /\ UNCHANGED <<config, matching, alone>>
    /\ IF TracesOn /\ sid # NoSession /\ parent # NoSession
       THEN /\ fork_parent_map' = Put(fork_parent_map, sid, parent)
            /\ UNCHANGED <<sessions, active_spans, spans, pending,
                           start_times, session_start_times>>
       ELSE NoOp

\* on_session_resume that links the resumed session like a forked one.
on_session_resume_linked(sid) ==
    /\ HookCanStart
    /\ Returned("session:resume", sid)
    /\ UNCHANGED <<config, matching, alone>>
    /\ IF ~TracesOn \/ sid = NoSession THEN NoOp
       ELSE LET parent_session_id == IF sid \in DOMAIN fork_parent_map
                                     THEN fork_parent_map[sid] ELSE NoSession
            IN /\ fork_parent_map' = Remove(fork_parent_map, sid)
               /\ Apply(start_session_span(Cur, sid, for_session_resume(sid),
                                           parent_session_id))
               /\ UNCHANGED <<pending, start_times, session_start_times>>

on_session_resume(sid) ==
    /\ HookCanStart
    /\ Returned("session:resume", sid)
    /\ UNCHANGED <<config, matching, alone>>
    /\ IF ~TracesOn \/ sid = NoSession THEN NoOp
       ELSE /\ Apply(start_session_span(Cur, sid, for_session_resume(sid), NoSession))
            /\ UNCHANGED <<pending, fork_parent_map, start_times, session_start_times>>

on_prompt_submit(sid, id) ==
    /\ HookCanStart
    /\ Returned("prompt:submit", sid)
    /\ UNCHANGED <<config, matching, alone>>
    /\ StartPending("prompt", "prompt", sid, "", id, FALSE)

on_prompt_complete(sid) ==
    /\ Returned("prompt:complete", sid)
    /\ UNCHANGED <<config, matching, alone>>
    /\ EndPending("prompt", sid, "OK", "", FALSE)

on_plan_start(sid, id) ==
    /\ HookCanStart
    /\ Returned("plan:start", sid)
    /\ UNCHANGED <<config, matching, alone>>
    /\ StartPending("plan", "plan", sid, "", id, FALSE)

on_plan_end(sid) ==
    /\ Returned("plan:end", sid)
    /\ UNCHANGED <<config, matching, alone>>
    /\ EndPending("plan", sid, "OK", "", FALSE)

on_approval_required(sid, id) ==
    /\ HookCanStart
    /\ Returned("approval:required", sid)
    /\ UNCHANGED <<config, matching, alone>>
    /\ StartPending("approval", "approval_pending", sid, "", id, FALSE)

\* The shape shared by the two handlers that close an approval: pop the
\* pending key, set attrs on the span registered under it, end it with OK.
EndApproval(sid, attrs) ==
    IF ~TracesOn THEN NoOp
    ELSE LET correlation_key == IF sid # NoSession /\ sid \in DOMAIN pending["approval"]
                                  THEN pending["approval"][sid] ELSE NoKey
             span == get_active_span(active_spans, correlation_key)
             m1 == IF span # None
                   THEN Mgr(sessions, active_spans,
                            set_attributes(spans, span, attrs), None)
                   ELSE Cur
         IN IF correlation_key = NoKey THEN NoOp
            ELSE /\ pending' = [pending EXCEPT !["approval"] = Remove(@, sid)]
                 /\ Apply(end_child_span(m1, correlation_key, "OK", ""))
                 /\ UNCHANGED <<fork_parent_map, start_times, session_start_times>>

on_approval_granted(sid) ==
    /\ Returned("approval:granted", sid)
    /\ UNCHANGED <<config, matching, alone>>
    /\ EndApproval(sid, {<<"amplifier.approval.result", "granted">>})

\* approval:denied carries reason ("" when the payload has none or an empty
\* one): data.get("reason", "") is set on the span as it is.
on_approval_denied(sid, reason) ==
    /\ Returned("approval:denied", sid)
    /\ UNCHANGED <<config, matching, alone>>
    /\ EndApproval(sid, {<<"amplifier.approval.result", "denied">>}
                            \cup IF reason # ""
                                 THEN {<<"amplifier.approval.denial_reason", reason>>}
                                 ELSE {})

\* AttributeMapper.for_cancellation: of its attributes, the one taken from
\* the payload's free text
for_cancellation(reason) ==
    IF reason # "" THEN {<<"amplifier.cancel.reason", reason>>} ELSE {}

\* cancel:requested carries reason ("" when the payload has none)
on_cancel_requested(sid, id, reason) ==
    /\ HookCanStart
    /\ Returned("cancel:requested", sid)
    /\ UNCHANGED <<config, matching, alone>>
    /\ IF ~TracesOn \/ sid = NoSession THEN NoOp
       ELSE LET correlation_key == CorrelationKey("cancel", sid, "", id)
            IN /\ Apply(start_child_span(Cur, sid, "cancellation",
                                         for_cancellation(reason), correlation_key))
               /\ pending' = [pending EXCEPT !["cancel"] = Put(@, sid, correlation_key)]
               /\ UNCHANGED <<fork_parent_map, start_times, session_start_times>>

on_cancel_completed(sid) ==
    /\ Returned("cancel:completed", sid)
    /\ UNCHANGED <<config, matching, alone>>
    /\ EndPending("cancel", sid, "OK", "", FALSE)

\* Instant that starts the span and leaves it registered and open.
Instant_noend(fam, name, sid, id, status, error_message) ==
    IF ~TracesOn \/ sid = NoSession THEN NoOp
    ELSE LET correlation_key == CorrelationKey(fam, sid, "", id)
         IN /\ Apply(start_child_span(Cur, sid, name, {}, correlation_key))
            /\ UNCHANGED <<pending, fork_parent_map, start_times, session_start_times>>

\* The shape shared by the instant-event handlers: a child span started and
\* ended in the same invocation.
Instant(fam, name, sid, id, status, error_message) ==
    IF ~TracesOn \/ sid = NoSession THEN NoOp
    ELSE LET correlation_key == CorrelationKey(fam, sid, "", id)
             m1 == start_child_span(Cur, sid, name, {}, correlation_key)
         IN /\ Apply(end_child_span(m1, correlation_key, status, error_message))
            /\ UNCHANGED <<pending, fork_parent_map, start_times, session_start_times>>

on_context_compaction(sid, id) ==
    /\ HookCanStart
    /\ Returned("context:compaction", sid)
    /\ UNCHANGED <<config, matching, alone>>
    /\ Instant("compaction", "context_compaction", sid, id, "OK", "")

on_context_include(sid, id) ==
    /\ HookCanStart
    /\ Returned("context:include", sid)
    /\ UNCHANGED <<config, matching, alone>>
    /\ Instant("include", "context_include", sid, id, "OK", "")

on_artifact_write(sid, id) ==
    /\ HookCanStart
    /\ Returned("artifact:write", sid)
    /\ UNCHANGED <<config, matching, alone>>
    /\ Instant("artifact_write", "artifact_write", sid, id, "OK", "")

on_artifact_read(sid, id) ==
    /\ HookCanStart
    /\ Returned("artifact:read", sid)
    /\ UNCHANGED <<config, matching, alone>>
    /\ Instant("artifact_read", "artifact_read", sid, id, "OK", "")

on_policy_violation(sid, id, violation_type) ==
    /\ HookCanStart
    /\ Returned("policy:violation", sid)
    /\ UNCHANGED <<config, matching, alone>>
    /\ Instant("policy", "policy_violation", sid, id, "ERROR", violation_type)

on_orchestrator_complete(sid) ==
    /\ Returned("orchestrator:complete", sid)
    /\ UNCHANGED <<config, matching, alone>>
    /\ NoOp

InitHook ==
    /\ InitTables
    /\ config = [enabled |-> TRUE, traces |-> TRUE, metrics |-> TRUE, sensitive_data |-> SensitiveDataConfig,
                 payload_limits |-> PayloadLimitsConfig]

NextHook ==
    \/ \E sid \in SessionArgs : on_session_start(sid)
    \/ \E sid \in SessionArgs : on_session_end(sid)
    \/ \E sid \in SessionArgs, p \in SessionArgs : on_session_fork(sid, p)
    \/ \E sid \in SessionArgs : on_session_resume(sid)
    \/ \E sid \in SessionArgs : on_execution_start(sid)
    \/ \E sid \in SessionArgs : on_execution_end(sid)
    \/ \E sid \in SessionArgs : on_orchestrator_complete(sid)
    \/ \E sid \in SessionArgs, id \in DataIds : on_llm_request(sid, id)
    \/ \E sid \in SessionArgs, u \in UsageArgs : on_llm_response(sid, u)
    \/ \E sid \in SessionArgs, msg \in ErrorArgs : on_provider_error(sid, msg)
    \/ \E sid \in SessionArgs, t \in ToolNames, id \in DataIds : on_tool_pre(sid, t, id)
    \/ \E sid \in SessionArgs : on_tool_post(sid)
    \/ \E sid \in SessionArgs, t \in ErrorTypes, msg \in ErrorArgs : on_tool_error(sid, t, msg)
    \/ \E sid \in SessionArgs, id \in UntimedIds : on_prompt_submit(sid, id)
    \/ \E sid \in SessionArgs : on_prompt_complete(sid)
    \/ \E sid \in SessionArgs, id \in UntimedIds : on_plan_start(sid, id)
    \/ \E sid \in SessionArgs : on_plan_end(sid)
    \/ \E sid \in SessionArgs, id \in UntimedIds : on_approval_required(sid, id)
    \/ \E sid \in SessionArgs : on_approval_granted(sid)
    \/ \E sid \in SessionArgs, reason \in ReasonArgs : on_approval_denied(sid, reason)
    \/ \E sid \in SessionArgs, id \in UntimedIds, reason \in ReasonArgs :
          on_cancel_requested(sid, id, reason)
    \/ \E sid \in SessionArgs : on_cancel_completed(sid)
    \/ \E sid \in SessionArgs, id \in InstantIds : on_context_compaction(sid, id)
    \/ \E sid \in SessionArgs, id \in InstantIds : on_context_include(sid, id)
    \/ \E sid \in SessionArgs, id \in InstantIds : on_artifact_write(sid, id)
    \/ \E sid \in SessionArgs, id \in InstantIds : on_artifact_read(sid, id)
    \/ \E sid \in SessionArgs, id \in InstantIds, v \in {"", "pii"} : on_policy_violation(sid, id, v)

SpecHook == InitHook /\ [][NextHook]_vars

\* ----- the hook built with tracing switched off -------------------------
\* every configuration in which the master flag or the traces flag is off
InitFlags ==
    /\ InitTables
    /\ \E e, t, m \in BOOLEAN :
          /\ ~(e /\ t)
          /\ config = [enabled |-> e, traces |-> t, metrics |-> m, sensitive_data |-> SensitiveDataConfig,
                 payload_limits |-> PayloadLimitsConfig]

SpecFlags == InitFlags /\ [][NextHook]_vars

\* ----- one session's scenario, played among another session's events ------
ScenarioSession == "s1"

ForeignSession == "s2"

ScenarioOps == <<"session:start", "execution:start", "llm:request", "llm:response",
                 "execution:end", "session:end">>

Scenario == [i \in 1..Len(ScenarioOps) |-> <<ScenarioOps[i], ScenarioSession>>]

Foreign == {<<ScenarioOps[i], ForeignSession>> : i \in 1..Len(ScenarioOps)}

InsertAt(s, i, e) == SubSeq(s, 1, i) \o <<e>> \o SubSeq(s, i + 1, Len(s))

\* a scenario with at most k of the given foreign events delivered in between
RECURSIVE Interleavings(_, _, _)
Interleavings(base, foreign, k) ==
    IF k = 0 THEN {base}
    ELSE LET P == Interleavings(base, foreign, k - 1)
         IN P \cup UNION {{InsertAt(s, i, e) : i \in 0..Len(s), e \in foreign} : s \in P}

Scripts(k) == {Append(s, EndOfScript) : s \in Interleavings(Scenario, Foreign, k)}

InitScenario ==
    /\ sessions = Empty
    /\ active_spans = Empty
    /\ spans = <<>>
    /\ pending = [f \in Families |-> Empty]
    /\ fork_parent_map = Empty
    /\ start_times = {}
    /\ session_start_times = {}
    /\ last = NoLast
    /\ events = 0
    /\ matching = <<>>
    /\ alone = <<>>
    /\ script \in Scripts(MaxForeign)
    /\ \E m \in BOOLEAN :
          config = [enabled |-> TRUE, traces |-> TRUE, metrics |-> m, sensitive_data |-> SensitiveDataConfig,
                 payload_limits |-> PayloadLimitsConfig]

NextScenario ==
    \/ \E sid \in SessionIds : on_session_start(sid)
    \/ \E sid \in SessionIds : on_execution_start(sid)
    \/ \E sid \in SessionIds, id \in DataIds : on_llm_request(sid, id)
    \/ \E sid \in SessionIds : on_llm_response(sid, "mapping")
    \/ \E sid \in SessionIds : on_execution_end(sid)
    \/ \E sid \in SessionIds : on_session_end(sid)

SpecScenario == InitScenario /\ [][NextScenario]_vars

\* ----- a failing tool call in a started session --------------------------
ToolErrorOps == <<"session:start", "tool:pre", "tool:error">>

ToolErrorScenario == [i \in 1..Len(ToolErrorOps) |-> <<ToolErrorOps[i], ScenarioSession>>]

ToolErrorForeign == {<<ToolErrorOps[i], ForeignSession>> : i \in 1..Len(ToolErrorOps)}

\* the master filter switch and the error-message flag in every combination
InitToolError ==
    /\ sessions = Empty
    /\ active_spans = Empty
    /\ spans = <<>>
    /\ pending = [f \in Families |-> Empty]
    /\ fork_parent_map = Empty
    /\ start_times = {}
    /\ session_start_times = {}
    /\ last = NoLast
    /\ events = 0
    /\ matching = <<>>
    /\ alone = <<>>
    /\ script \in {Append(s, EndOfScript) :
                       s \in Interleavings(ToolErrorScenario, ToolErrorForeign, MaxForeign)}
    /\ \E m, master, err \in BOOLEAN :
          config = [enabled |-> TRUE, traces |-> TRUE, metrics |-> m,
                    sensitive_data |->
                        [SensitiveDataConfig EXCEPT !.filter_sensitive_data = master,
                                                    !.filter_error_messages = err],
                    payload_limits |-> PayloadLimitsConfig]

NextToolError ==
    \/ \E sid \in SessionIds : on_session_start(sid)
    \/ \E sid \in SessionIds, t \in ToolNames, id \in DataIds : on_tool_pre(sid, t, id)
    \/ \E sid \in SessionIds, t \in ErrorTypes, msg \in ErrorArgs : on_tool_error(sid, t, msg)

SpecToolError == InitToolError /\ [][NextToolError]_vars

\* ----- the filter decision ----------------------------------------------
KnownDataTypes == {"llm_content", "user_input", "tool_parameters", "tool_results",
                   "error_messages"}

\* the five kinds of the filter map and one it does not know
DataTypes == KnownDataTypes \cup {"attachments"}

\* no config at all, or a config with the six filter flags in every combination
InitFilter ==
    /\ InitTables
    /\ \/ config = NoConfig
       \/ \E master, llm, user, params, results, errs \in BOOLEAN :
             config = [enabled |-> TRUE, traces |-> TRUE, metrics |-> FALSE,
                       sensitive_data |->
                           [filter_sensitive_data |-> master, filter_llm_content |-> llm,
                            filter_user_input |-> user, filter_tool_parameters |-> params,
                            filter_tool_results |-> results, filter_error_messages |-> errs],
                       payload_limits |-> PayloadLimitsConfig]

ShouldFilter(data_type) ==
    /\ config # NoConfig
    /\ last' = [op |-> "should_filter", arg |-> <<data_type>>,
                ret |-> should_filter(config, data_type), written |-> {}]
    /\ UNCHANGED <<sessions, active_spans, spans, hookVars, events, matching>>

ManagerShouldFilter(data_type) ==
    /\ last' = [op |-> "_should_filter", arg |-> <<data_type>>,
                ret |-> _should_filter(config, data_type), written |-> {}]
    /\ UNCHANGED <<sessions, active_spans, spans, hookVars, events, matching>>

NextFilter ==
    \/ \E t \in DataTypes : ShouldFilter(t)
    \/ \E t \in DataTypes : ManagerShouldFilter(t)

SpecFilter == InitFilter /\ [][NextFilter]_vars

\* ----- mount: exporter setup and handler registration --------------------
KnownExporters == {"console", "otlp-http", "otlp-grpc", "file"}

\* the exporter selectors given: the four known ones and two unknown ones
ExporterArgs == KnownExporters \cup {"jaeger", "stdout"}

ValueError == "ValueError"

\* setup_tracing: the span processor installed, or ValueError
setup_tracing(cfg) ==
    IF cfg.exporter = "console" THEN "SimpleSpanProcessor(ConsoleSpanExporter)"
    ELSE IF cfg.exporter = "otlp-http" THEN "BatchSpanProcessor(OTLPSpanExporter http)"
    ELSE IF cfg.exporter = "otlp-grpc" THEN "BatchSpanProcessor(OTLPSpanExporter grpc)"
    ELSE IF cfg.exporter = "file" THEN "SimpleSpanProcessor(FileSpanExporter)"
    ELSE ValueError

\* setup_metrics: the metric exporter of the reader installed
setup_metrics(cfg) ==
    IF cfg.exporter = "console" THEN "ConsoleMetricExporter"
    ELSE IF cfg.exporter \in {"otlp-http", "otlp-grpc"}
    THEN IF cfg.exporter = "otlp-http" THEN "OTLPMetricExporter http"
         ELSE "OTLPMetricExporter grpc"
    ELSE "ConsoleMetricExporter"

NotSetUp == "none"

\* mount: what it raised ("" when it returned), the trace and metric pipelines
\* it set up, and whether the handlers were registered
mount(cfg) ==
    LET tracing == IF cfg.enabled /\ cfg.traces THEN setup_tracing(cfg) ELSE NotSetUp
        metering == IF cfg.enabled /\ cfg.metrics THEN setup_metrics(cfg) ELSE NotSetUp
    IN IF tracing = ValueError
       THEN [raised |-> ValueError, tracing |-> NotSetUp, metrics |-> NotSetUp,
             registered |-> FALSE]
       ELSE [raised |-> "", tracing |-> tracing, metrics |-> metering,
             registered |-> TRUE]

\* the config dict given to mount: the three flags and the exporter selector
InitMount ==
    /\ InitTables
    /\ \E e, t, m \in BOOLEAN, x \in ExporterArgs :
          config = [enabled |-> e, traces |-> t, metrics |-> m, exporter |-> x,
                    sensitive_data |-> SensitiveDataConfig,
                    payload_limits |-> PayloadLimitsConfig]

Mount ==
    /\ last.op = "init"
    /\ last' = [op |-> "mount", arg |-> <<config.exporter>>, ret |-> mount(config),
                written |-> {}]
    /\ UNCHANGED <<sessions, active_spans, spans, hookVars, events, matching>>

\* the handlers are called once mount has registered them
Mounted ==
    /\ last.op # "init"
    /\ last.op = "mount" => last.ret.registered

NextMount ==
    \/ Mount
    \/ \E sid \in SessionIds : Mounted /\ on_session_start(sid)
    \/ \E sid \in SessionIds : Mounted /\ on_session_end(sid)

SpecMount == InitMount /\ [][NextMount]_vars

\* ----- the MetricsRecorder called directly -------------------------------
\* keys given to both families of methods: a timing key may read as a session id
MetricKeys == SessionIds

Timed(op, key, duration, recorded) ==
    /\ events < MaxMetricCalls
    /\ events' = events + 1
    /\ last' = [op |-> op, arg |-> <<key>>,
                ret |-> [duration |-> duration, recorded |-> recorded], written |-> {}]
    /\ UNCHANGED <<sessions, active_spans, spans, pending, fork_parent_map, config,
                   script, matching, alone>>

StartTiming(key) ==
    /\ Timed("start_timing", key, NoDuration, {})
    /\ start_times' = start_timing(start_times, key)
    /\ UNCHANGED session_start_times

RecordDuration(key) ==
    /\ Timed("record_duration", key, record_duration_ret(start_times, key),
             record_duration_recorded(start_times, key))
    /\ start_times' = record_duration(start_times, key)
    /\ UNCHANGED session_start_times

RecordSessionStarted(sid) ==
    /\ Timed("record_session_started", sid, NoDuration, {"amplifier.sessions.started"})
    /\ session_start_times' = record_session_started(session_start_times, sid)
    /\ UNCHANGED start_times

RecordSessionEnded(sid) ==
    /\ Timed("record_session_ended", sid,
             record_session_ended_ret(session_start_times, sid),
             record_session_ended_recorded(session_start_times, sid))
    /\ session_start_times' = record_session_ended(session_start_times, sid)
    /\ UNCHANGED start_times

NextMetrics ==
    \/ \E k \in MetricKeys : StartTiming(k)
    \/ \E k \in MetricKeys : RecordDuration(k)
    \/ \E sid \in MetricKeys : RecordSessionStarted(sid)
    \/ \E sid \in MetricKeys : RecordSessionEnded(sid)

SpecMetrics == InitHook /\ [][NextMetrics]_vars

\* ----- process_payload --------------------------------------------------
\* contents that read as the text process_payload would put in their place
\* under a limit of one byte: 47 and 32 bytes long
SelfDescribing == {"[PAYLOAD_DROPPED: size=47 bytes, limit=1 bytes]",
                   "...[TRUNCATED: 32 bytes removed]"}

\* contents of 0, 1, 2, 2 and 4 bytes ("é" and "a€" have more bytes than
\* characters) and the self-describing ones
Contents == {"", "a", "é", "ab", "a€"} \cup SelfDescribing

\* the four payload types process_payload knows and one it does not
PayloadTypes == {"llm_content", "tool_payload", "error", "default", "attachment"}

PayloadLimits == {1, SmallLimit}

\* a config whose four limits, drop/truncate mode and size-metadata flag vary
InitPayload ==
    /\ InitTables
    /\ \E drop, meta \in BOOLEAN, any, llm, tool, err \in PayloadLimits :
          config = [enabled |-> TRUE, traces |-> TRUE, metrics |-> FALSE,
                    sensitive_data |-> SensitiveDataConfig,
                    payload_limits |->
                        [drop_large_payloads |-> drop, max_payload_size |-> any,
                         max_llm_content_size |-> llm, max_tool_payload_size |-> tool,
                         max_error_size |-> err, include_size_metadata |-> meta]]

ProcessPayload(content, payload_type) ==
    /\ last' = [op |-> "process_payload", arg |-> <<content, payload_type>>,
                ret |-> process_payload(config, content, payload_type), written |-> {}]
    /\ UNCHANGED <<sessions, active_spans, spans, hookVars, events, matching>>

NextPayload == \E content \in Contents, t \in PayloadTypes : ProcessPayload(content, t)

SpecPayload == InitPayload /\ [][NextPayload]_vars

\* ----- process_payload on long contents ----------------------------------
\* c repeated n times
RECURSIVE Fill(_, _)
Fill(c, n) ==
    IF n = 0 THEN ""
    ELSE IF n = 1 THEN c
    ELSE Fill(c, n \div 2) \o Fill(c, n - (n \div 2))

\* numbers of characters around the 100 the truncation cuts at a time
LongLengths == {99, 100, 101, 150} \cup {100 * MaxBlocks, 100 * MaxBlocks + 50}

\* contents of one-byte characters, of two-byte characters, and of both
LongContents ==
    {Fill(c, n) : c \in {"x", "é"}, n \in LongLengths}
        \cup {Fill("é", 30) \o Fill("x", n) : n \in LongLengths}

LongLimits == {0, 50, 100, 120, 100 * MaxBlocks}

\* truncate or drop mode, with or without size metadata, one limit for all types
InitTruncate ==
    /\ InitTables
    /\ \E drop, meta \in BOOLEAN, limit \in LongLimits :
          config = [enabled |-> TRUE, traces |-> TRUE, metrics |-> FALSE,
                    sensitive_data |-> SensitiveDataConfig,
                    payload_limits |->
                        [drop_large_payloads |-> drop, max_payload_size |-> limit,
                         max_llm_content_size |-> limit, max_tool_payload_size |-> limit,
                         max_error_size |-> limit, include_size_metadata |-> meta]]

NextTruncate == \E content \in LongContents : ProcessPayload(content, "default")

SpecTruncate == InitTruncate /\ [][NextTruncate]_vars

\* ----- the truncation loop of process_payload, one iteration per step ----
\* limits the configuration accepts: PayloadLimitsConfig takes any integer
TerminateLimits == {-1, 0, 50, 100, 120, 100 * MaxBlocks}

\* truncate mode, one limit for all payload types
InitTerminate ==
    /\ sessions = Empty
    /\ active_spans = Empty
    /\ spans = <<>>
    /\ pending = [f \in Families |-> Empty]
    /\ fork_parent_map = Empty
    /\ start_times = {}
    /\ session_start_times = {}
    /\ last = [NoLast EXCEPT !.ret = Processed("", {})]
    /\ events = 0
    /\ matching = <<>>
    /\ script = <<>>
    /\ alone = <<>>
    /\ \E limit \in TerminateLimits :
          config = [enabled |-> TRUE, traces |-> TRUE, metrics |-> FALSE,
                    sensitive_data |-> SensitiveDataConfig,
                    payload_limits |->
                        [drop_large_payloads |-> FALSE, max_payload_size |-> limit,
                         max_llm_content_size |-> limit, max_tool_payload_size |-> limit,
                         max_error_size |-> limit, include_size_metadata |-> TRUE]]

InLoop == "process_payload: while"

\* process_payload up to its while loop: the early returns, or
\* truncated_content = content (kept in last.ret.content while the loop runs)
EnterProcessPayload(content, payload_type) ==
    /\ last.op = "init"
    /\ LET limit == get_payload_limit(config, payload_type)
       IN IF content = "" \/ utf8_len(content) <= limit
          THEN last' = [op |-> "process_payload", arg |-> <<content, payload_type>>,
                        ret |-> Processed(content, {}), written |-> {}]
          ELSE last' = [op |-> InLoop, arg |-> <<content, payload_type>>,
                        ret |-> Processed(content, {}), written |-> {}]
    /\ UNCHANGED <<sessions, active_spans, spans, hookVars, events, matching>>

\* one iteration: truncated_content = truncated_content[:-100]
WhileBody ==
    /\ last.op = InLoop
    /\ utf8_len(last.ret.content) > get_payload_limit(config, last.arg[2])
    /\ last' = [last EXCEPT !.ret.content = SubSeq(@, 1, Len(@) - 100)]
    /\ events' = IF events < MaxIterations THEN events + 1 ELSE events
    /\ UNCHANGED <<sessions, active_spans, spans, hookVars, matching>>

\* the loop condition is false: the suffix is appended and the call returns
WhileExit ==
    /\ last.op = InLoop
    /\ LET limit == get_payload_limit(config, last.arg[2])
           content_bytes == utf8_len(last.arg[1])
           truncated_content == last.ret.content
       IN /\ utf8_len(truncated_content) <= limit
          /\ last' = [last EXCEPT
                        !.op = "process_payload",
                        !.ret = Processed(
                                    truncated_content \o PAYLOAD_TRUNCATED_SUFFIX(
                                        content_bytes - utf8_len(truncated_content)),
                                    {<<"payload.original_size", content_bytes>>,
                                     <<"payload.limit", limit>>,
                                     <<"payload.truncated", TRUE>>})]
    /\ UNCHANGED <<sessions, active_spans, spans, hookVars, events, matching>>

NextTerminate ==
    \/ \E content \in LongContents \cup {""} : EnterProcessPayload(content, "default")
    \/ WhileBody
    \/ WhileExit

\* the interpreter keeps executing the call it is in
SpecTerminate ==
    InitTerminate /\ [][NextTerminate]_vars /\ WF_vars(WhileBody) /\ WF_vars(WhileExit)

\* ----- tool payloads given to the SpanManager ----------------------------
\* str(tool_input) / str(result): one byte, and three characters of six bytes
PayloadContents == {"a", "aé€"}

PayloadArgs == {Absent} \cup {Given(c) : c \in PayloadContents}

\* called without a correlation key or with one
PayloadKeys == {NoKey, <<"key", "", "", 1>>}

\* a SpanManager built without a config, or with one whose tool and error
\* flags (under the master switch on; all on under the master switch off),
\* and drop/truncate mode vary; the tool and error limits are SmallLimit bytes,
\* which the one-byte content fits and the six-byte content exceeds
InitToolPayload ==
    /\ InitTables
    /\ \/ config = NoConfig
       \/ \E master, params, results, errs, drop \in BOOLEAN :
             /\ master \/ (params /\ results /\ errs)
             /\ config = [enabled |-> TRUE, traces |-> TRUE, metrics |-> FALSE,
                       sensitive_data |->
                           [SensitiveDataConfig EXCEPT
                               !.filter_sensitive_data = master,
                               !.filter_tool_parameters = params,
                               !.filter_tool_results = results,
                               !.filter_error_messages = errs],
                       payload_limits |->
                           [PayloadLimitsConfig EXCEPT
                               !.max_tool_payload_size = SmallLimit,
                               !.max_error_size = SmallLimit,
                               !.drop_large_payloads = drop]]

PayloadStartTool(sid, tool_input, key) ==
    /\ Len(spans) < MaxPayloadSpans
    /\ LET m == start_tool_span(Cur, config, sid, "bash", tool_input, key)
       IN /\ Apply(m)
          /\ last' = [op |-> "start_tool_span", arg |-> <<tool_input>>,
                      ret |-> m.ret, written |-> {}]
    /\ UNCHANGED <<hookVars, events, matching>>

PayloadEndTool(sid, key, result, error) ==
    /\ LET span == IF key # NoKey /\ Get(active_spans, key) # None
                   THEN Get(active_spans, key)
                   ELSE IF sid \in DOMAIN sessions THEN sessions[sid].current_tool
                   ELSE None
       IN /\ Apply(end_tool_span(Cur, config, sid, key, error = "", result, error))
          /\ last' = [op |-> "end_tool_span", arg |-> <<result, error>>,
                      ret |-> span, written |-> {}]
    /\ UNCHANGED <<hookVars, events, matching>>

NextToolPayload ==
    \/ /\ Len(spans) < MaxPayloadSpans
       /\ StartSessionSpan(ScenarioSession, NoSession)
    \/ \E input \in PayloadArgs, k \in PayloadKeys : PayloadStartTool(ScenarioSession, input, k)
    \/ \E k \in PayloadKeys, result \in PayloadArgs, e \in ErrorArgs :
          PayloadEndTool(ScenarioSession, k, result, e)

SpecToolPayload == InitToolPayload /\ [][NextToolPayload]_vars

\* ----- well-nested tool calls in one session -----------------------------
\* matching is the stack of calls still awaiting their end: for each, the
\* span start_tool_span returned and the correlation key it was given.
NestedSession == "s1"

InitNested ==
    /\ \E withTurn \in BOOLEAN :
          LET m0 == start_session_span(Mgr(Empty, Empty, <<>>, None),
                                       NestedSession, {}, NoSession)
              m1 == IF withTurn THEN start_turn_span(m0, NestedSession) ELSE m0
          IN /\ sessions = m1.sessions
             /\ active_spans = m1.active_spans
             /\ spans = m1.spans
    /\ InitSide
    /\ config = [enabled |-> TRUE, traces |-> TRUE, metrics |-> FALSE, sensitive_data |-> SensitiveDataConfig,
                 payload_limits |-> PayloadLimitsConfig]

NestedStartTool(key) ==
    /\ Len(spans) < MaxNestedSpans
    /\ LET m == start_tool_span(Cur, config, NestedSession, "bash", Absent, key)
       IN /\ Apply(m)
          /\ matching' = Append(matching, [span |-> m.ret, key |-> key])
    /\ UNCHANGED <<hookVars, last, events>>

NestedEndTool(error) ==
    /\ matching # <<>>
    /\ Apply(end_tool_span(Cur, config, NestedSession, matching[Len(matching)].key,
                            error = "", Absent, error))
    /\ matching' = SubSeq(matching, 1, Len(matching) - 1)
    /\ UNCHANGED <<hookVars, last, events>>

NextNested ==
    \/ \E k \in KeyArgs : NestedStartTool(k)
    \/ \E e \in ErrorArgs : NestedEndTool(e)

SpecNested == InitNested /\ [][NextNested]_vars

\* ----- two sessions, alone and interleaved ------------------------------
\* Each behaviour delivers the events of session s1 to a fresh hook, then the
\* events of session s2 to a fresh hook, then an interleaving of the two
\* sequences to a fresh hook.  alone keeps what the fresh hooks held for each
\* session when they were replaced.
NewHook == <<"new hook", NoSession>>

\* the event sequences of one session: complete and incomplete pairs, events
\* before session:start, events after session:end
SessionScripts ==
    {<<"session:start", "execution:start", "tool:pre", "tool:post">>,
     <<"session:start", "llm:request", "llm:response", "session:end">>,
     <<"session:start", "tool:pre", "tool:error", "session:end">>,
     <<"tool:pre", "session:start", "tool:post">>,
     <<"session:resume", "approval:required", "approval:denied">>,
     <<"session:start", "execution:start", "execution:end", "session:end">>,
     <<"session:start", "context:compaction", "policy:violation">>,
     <<"session:start", "prompt:submit", "session:end", "prompt:complete">>}

EventsOf(ops, sid) == [i \in 1..Len(ops) |-> <<ops[i], sid>>]

\* every interleaving of a and b that keeps each in its own order
RECURSIVE Merges(_, _)
Merges(a, b) ==
    IF a = <<>> THEN {b}
    ELSE IF b = <<>> THEN {a}
    ELSE {<<Head(a)>> \o m : m \in Merges(Tail(a), b)}
             \cup {<<Head(b)>> \o m : m \in Merges(a, Tail(b))}

IndependentScripts ==
    UNION {{EventsOf(a, "s1") \o <<NewHook>> \o EventsOf(b, "s2") \o <<NewHook>>
                \o m \o <<EndOfScript>> :
                m \in Merges(EventsOf(a, "s1"), EventsOf(b, "s2"))} :
           a \in SessionScripts, b \in SessionScripts}

\* the position of span i among the spans of its session (None for None)
Rank(sp, i) ==
    IF i = None THEN None
    ELSE Cardinality({j \in 1..i : sp[j].sess = sp[i].sess})

\* What the hook holds for session sid: its context, its pending entries, its
\* active-span entries, its timing entries, its fork entry and its spans in the
\* order they were started, each span named by its position among them.
SessionView(sid) ==
    LET own == {i \in 1..Len(spans) : spans[i].sess = sid}
        nth(n) == CHOOSE i \in own : Rank(spans, i) = n
    IN [context |->
            IF sid \in DOMAIN sessions
            THEN {[root_span |-> Rank(spans, sessions[sid].root_span),
                   current_turn |-> Rank(spans, sessions[sid].current_turn),
                   current_tool |-> Rank(spans, sessions[sid].current_tool),
                   tool_stack |-> [k \in 1..Len(sessions[sid].tool_stack) |->
                                      Rank(spans, sessions[sid].tool_stack[k])],
                   turn_count |-> sessions[sid].turn_count]}
            ELSE {},
        pending |-> [f \in Families |->
                        IF sid \in DOMAIN pending[f] THEN {pending[f][sid]} ELSE {}],
        active |-> {<<k, Rank(spans, active_spans[k])>> :
                        k \in {c \in DOMAIN active_spans : c[2] = sid}},
        timing |-> {k \in start_times : k[2] = sid},
        started |-> session_start_times \cap {sid},
        fork |-> IF sid \in DOMAIN fork_parent_map THEN {fork_parent_map[sid]} ELSE {},
        spans |-> [n \in 1..Cardinality(own) |->
                      [spans[nth(n)] EXCEPT !.parent = Rank(spans, @),
                                            !.trace = Rank(spans, @)]]]

\* OTelHook(config): the tables of a hook just constructed
Constructed ==
    /\ script # <<>> /\ Head(script) = NewHook
    /\ script' = Tail(script)
    /\ alone' = Append(alone, [sid \in SessionIds |-> SessionView(sid)])
    /\ sessions' = Empty
    /\ active_spans' = Empty
    /\ spans' = <<>>
    /\ pending' = [f \in Families |-> Empty]
    /\ fork_parent_map' = Empty
    /\ start_times' = {}
    /\ session_start_times' = {}
    /\ events' = 0
    /\ last' = [NoLast EXCEPT !.op = "new hook"]
    /\ UNCHANGED <<config, matching>>

\* the event named op delivered for session sid with a well-formed payload
Scripted(op, sid) ==
    CASE op = "session:start" -> on_session_start(sid)
      [] op = "session:end" -> on_session_end(sid)
      [] op = "session:resume" -> on_session_resume(sid)
      [] op = "execution:start" -> on_execution_start(sid)
      [] op = "execution:end" -> on_execution_end(sid)
      [] op = "llm:request" -> on_llm_request(sid, 1)
      [] op = "llm:response" -> on_llm_response(sid, "mapping")
      [] op = "tool:pre" -> on_tool_pre(sid, "bash", 1)
      [] op = "tool:post" -> on_tool_post(sid)
      [] op = "tool:error" -> on_tool_error(sid, "E", "boom")
      [] op = "prompt:submit" -> on_prompt_submit(sid, 1)
      [] op = "prompt:complete" -> on_prompt_complete(sid)
      [] op = "approval:required" -> on_approval_required(sid, 1)
      [] op = "approval:denied" -> on_approval_denied(sid, "why")
      [] op = "context:compaction" -> on_context_compaction(sid, 1)
      [] op = "policy:violation" -> on_policy_violation(sid, 1, "pii")
      [] OTHER -> FALSE

InitIndependent ==
    /\ sessions = Empty
    /\ active_spans = Empty
    /\ spans = <<>>
    /\ pending = [f \in Families |-> Empty]
    /\ fork_parent_map = Empty
    /\ start_times = {}
    /\ session_start_times = {}
    /\ last = NoLast
    /\ events = 0
    /\ matching = <<>>
    /\ alone = <<>>
    /\ script \in IndependentScripts
    /\ config = [enabled |-> TRUE, traces |-> TRUE, metrics |-> TRUE,
                 sensitive_data |-> SensitiveDataConfig,
                 payload_limits |-> PayloadLimitsConfig]

NextIndependent ==
    \/ Constructed
    \/ \E sid \in SessionIds : Scripted(Head(script)[1], sid)

SpecIndependent == InitIndependent /\ [][NextIndependent]_vars

\* ======================================================================
\* Properties of the SpanManager called directly (Spec)
\* ======================================================================
SpanIds == 1..Len(spans)

\* the spans of session sid with the given name that have not been ended
Unended(name, sid) ==
    {i \in SpanIds : spans[i].name = name /\ spans[i].sess = sid /\ spans[i].ends = 0}

\* C1: after end_session_span(S) the session map has no entry for S and
\* get_session_span(S) is none, whatever S's context held before.  (The
\* first conjunct of the antecedent is implied by the second: ending a
\* session starts no span.)
C1_EndSessionRemovesContext ==
    [][\A sid \in SessionIds :
          (Len(spans') = Len(spans) /\ EndSessionSpan(sid, "")) =>
              /\ sid \notin DOMAIN sessions'
              /\ get_session_span(sessions', sid) = None]_vars

\* s1 was ended while a tool nested in another tool was still open: both tool
\* spans were force-ended (ended without the status end_tool_span sets).
C1_Witness ==
    /\ "s1" \notin DOMAIN sessions
    /\ \E i, j \in SpanIds :
          /\ spans[i].name = "tool" /\ spans[j].name = "tool"
          /\ spans[i].sess = "s1" /\ spans[j].parent = i
          /\ spans[i].ends = 1 /\ spans[j].ends = 1
          /\ spans[i].status = "UNSET" /\ spans[j].status = "UNSET"
          /\ spans[spans[i].parent].name = "session"
          /\ spans[spans[i].parent].ends = 1

\* C3 (as claimed): after end_session_span(S) every span started for S has
\* been ended.
C3_AllSpansOfSessionEnded ==
    [][\A sid \in SessionIds :
          EndSessionSpan(sid, "") =>
              \A i \in 1..Len(spans') : spans'[i].sess = sid => spans'[i].ends >= 1]_vars

RECURSIVE Ascending(_)
Ascending(S) ==
    IF S = {} THEN <<>>
    ELSE LET m == CHOOSE x \in S : \A y \in S : x <= y
         IN <<m>> \o Ascending(S \ {m})

\* current_tool / tool_stack of session sid track the unended tool spans sp
\* holds for it, under the session map S
ToolsTracked(S, sp, sid) ==
    LET open == Ascending({i \in 1..Len(sp) :
                     sp[i].name = "tool" /\ sp[i].sess = sid /\ sp[i].ends = 0})
    IN IF open = <<>>
       THEN S[sid].current_tool = None /\ S[sid].tool_stack = <<>>
       ELSE /\ S[sid].current_tool = open[Len(open)]
            /\ S[sid].tool_stack = SubSeq(open, 1, Len(open) - 1)

ToolCall(sid) ==
    \/ \E t \in ToolNames, k \in KeyArgs : StartToolSpan(sid, t, Absent, k)
    \/ \E k \in KeyArgs, e \in ErrorArgs : EndToolSpan(sid, k, Absent, e)

\* C5 (as claimed): every start_tool_span / end_tool_span call on a session
\* keeps current_tool the most recently started unended tool span of the
\* session (none if there is none) and tool_stack the other unended tool spans
\* in start order, so that neither ever holds an ended span.
C5_CurrentToolIsInnermost ==
    [][\A sid \in SessionIds :
          (sid \in DOMAIN sessions /\ ToolsTracked(sessions, spans, sid) /\ ToolCall(sid))
              => (sid \in DOMAIN sessions' /\ ToolsTracked(sessions', spans', sid))]_vars

\* C6: a session never has two unended turn spans; the unended one is the
\* context's current_turn, and none is left once the session has ended.
C6_AtMostOneLiveTurn ==
    \A sid \in SessionIds :
        /\ Cardinality(Unended("turn", sid)) <= 1
        /\ IF sid \in DOMAIN sessions
           THEN Unended("turn", sid) \subseteq {sessions[sid].current_turn}
           ELSE Unended("turn", sid) = {}
        /\ \A i \in SpanIds : spans[i].name = "turn" => spans[i].ends <= 1

\* two turns were started for s1 and the session has ended: both turn spans
\* are ended, each once.
C6_Witness ==
    /\ "s1" \notin DOMAIN sessions
    /\ Len(spans) = 3
    /\ spans[1].name = "session" /\ spans[1].ends = 1
    /\ \A i \in {2, 3} :
          spans[i].name = "turn" /\ spans[i].sess = "s1" /\ spans[i].ends = 1

\* C7: a root started with a parent session whose root is live is a child of
\* that root and in its trace; otherwise it has no parent and a trace id no
\* earlier span has.
LiveRoot(p) ==
    IF p # NoSession /\ get_session_span(sessions, p) # None
          /\ spans[get_session_span(sessions, p)].ends = 0
    THEN get_session_span(sessions, p) ELSE None

C7_ForkedRootJoinsParentTrace ==
    [][\A sid \in SessionIds, p \in SessionArgs :
          StartSessionSpan(sid, p) =>
              LET n == Len(spans')
                  r == LiveRoot(p)
              IN /\ n = Len(spans) + 1
                 /\ sessions'[sid].root_span = n
                 /\ IF r # None
                    THEN spans'[n].parent = r /\ spans'[n].trace = spans[r].trace
                    ELSE /\ spans'[n].parent = None
                         /\ \A i \in SpanIds : spans[i].trace # spans'[n].trace]_vars

\* a fork chain of three roots, all in the first one's trace
C7_Witness ==
    /\ Len(spans) = 3
    /\ \A i \in SpanIds : spans[i].name = "session" /\ spans[i].trace = spans[1].trace
    /\ spans[1].parent = None /\ spans[2].parent = 1 /\ spans[3].parent = 2
    /\ spans[2].sess # spans[1].sess

\* ======================================================================
\* Properties of well-nested tool calls (SpecNested)
\* ======================================================================
\* C4: in a well-nested sequence of tool calls each end_tool_span ends the
\* span its matching start_tool_span created, exactly that one, and once the
\* last call has ended current_tool is none and tool_stack is empty.
C4_NestedToolsAreLifo ==
    [][(\E e \in ErrorArgs : NestedEndTool(e)) =>
          LET top == matching[Len(matching)]
          IN /\ spans[top.span].ends = 0
             /\ spans'[top.span].ends = 1
             /\ \A i \in SpanIds : i # top.span => spans'[i] = spans[i]
             /\ matching' = <<>> =>
                    /\ sessions'[NestedSession].current_tool = None
                    /\ sessions'[NestedSession].tool_stack = <<>>]_vars

\* three tool calls nested in one another have all ended, innermost first
C4_Witness ==
    /\ matching = <<>>
    /\ sessions[NestedSession].current_tool = None
    /\ sessions[NestedSession].tool_stack = <<>>
    /\ \E a, b, c \in SpanIds :
          /\ spans[a].name = "tool" /\ spans[b].name = "tool" /\ spans[c].name = "tool"
          /\ spans[b].parent = a /\ spans[c].parent = b
          /\ spans[a].ends = 1 /\ spans[b].ends = 1 /\ spans[c].ends = 1
          /\ spans[a].status # "UNSET" /\ spans[b].status # "UNSET"
          /\ spans[c].status # "UNSET"

\* ======================================================================
\* Properties of the hook's event handlers (SpecHook)
\* ======================================================================
tables == <<sessions, active_spans, spans, pending, fork_parent_map,
            start_times, session_start_times>>

\* the start event of a family, with the payload it carries
StartEvent(fam, sid, tool, id) ==
    CASE fam = "llm" -> tool = "" /\ on_llm_request(sid, id)
      [] fam = "tool" -> tool \in ToolNames /\ on_tool_pre(sid, tool, id)
      [] fam = "prompt" -> tool = "" /\ on_prompt_submit(sid, id)
      [] fam = "plan" -> tool = "" /\ on_plan_start(sid, id)
      [] fam = "approval" -> tool = "" /\ on_approval_required(sid, id)
      [] fam = "cancel" -> tool = "" /\ \E reason \in ReasonArgs : on_cancel_requested(sid, id, reason)

\* an end event of a family
EndEvent(fam, sid) ==
    CASE fam = "llm" -> (\E u \in UsageArgs : on_llm_response(sid, u))
                            \/ \E msg \in ErrorArgs : on_provider_error(sid, msg)
      [] fam = "tool" -> on_tool_post(sid) \/ \E t \in ErrorTypes, msg \in ErrorArgs : on_tool_error(sid, t, msg)
      [] fam = "prompt" -> on_prompt_complete(sid)
      [] fam = "plan" -> on_plan_end(sid)
      [] fam = "approval" -> \/ on_approval_granted(sid)
                             \/ \E reason \in ReasonArgs : on_approval_denied(sid, reason)
      [] fam = "cancel" -> on_cancel_completed(sid)

\* the event names of each family
StartOp ==
    [fam \in Families |->
        CASE fam = "llm" -> "llm:request"
          [] fam = "tool" -> "tool:pre"
          [] fam = "prompt" -> "prompt:submit"
          [] fam = "plan" -> "plan:start"
          [] fam = "approval" -> "approval:required"
          [] fam = "cancel" -> "cancel:requested"]

EndOps ==
    [fam \in Families |->
        CASE fam = "llm" -> {"llm:response", "provider:error"}
          [] fam = "tool" -> {"tool:post", "tool:error"}
          [] fam = "prompt" -> {"prompt:complete"}
          [] fam = "plan" -> {"plan:end"}
          [] fam = "approval" -> {"approval:granted", "approval:denied"}
          [] fam = "cancel" -> {"cancel:completed"}]

\* the event named op delivered with the given session id, whatever else its
\* payload carries
EventNamed(op, sid) ==
    CASE op = "session:start" -> on_session_start(sid)
      [] op = "session:end" -> on_session_end(sid)
      [] op = "session:fork" -> \E p \in SessionArgs : on_session_fork(sid, p)
      [] op = "session:resume" -> on_session_resume(sid)
      [] op = "execution:start" -> on_execution_start(sid)
      [] op = "execution:end" -> on_execution_end(sid)
      [] op = "orchestrator:complete" -> on_orchestrator_complete(sid)
      [] op = "llm:request" -> \E id \in DataIds : on_llm_request(sid, id)
      [] op = "llm:response" -> \E u \in UsageArgs : on_llm_response(sid, u)
      [] op = "provider:error" -> \E msg \in ErrorArgs : on_provider_error(sid, msg)
      [] op = "tool:pre" -> \E t \in ToolNames, id \in DataIds : on_tool_pre(sid, t, id)
      [] op = "tool:post" -> on_tool_post(sid)
      [] op = "tool:error" -> \E t \in ErrorTypes, msg \in ErrorArgs : on_tool_error(sid, t, msg)
      [] op = "prompt:submit" -> \E id \in UntimedIds : on_prompt_submit(sid, id)
      [] op = "prompt:complete" -> on_prompt_complete(sid)
      [] op = "plan:start" -> \E id \in UntimedIds : on_plan_start(sid, id)
      [] op = "plan:end" -> on_plan_end(sid)
      [] op = "approval:required" -> \E id \in UntimedIds : on_approval_required(sid, id)
      [] op = "approval:granted" -> on_approval_granted(sid)
      [] op = "approval:denied" -> \E reason \in ReasonArgs : on_approval_denied(sid, reason)
      [] op = "cancel:requested" -> \E id \in UntimedIds, reason \in ReasonArgs :
                                       on_cancel_requested(sid, id, reason)
      [] op = "cancel:completed" -> on_cancel_completed(sid)
      [] op = "context:compaction" -> \E id \in InstantIds : on_context_compaction(sid, id)
      [] op = "context:include" -> \E id \in InstantIds : on_context_include(sid, id)
      [] op = "artifact:write" -> \E id \in InstantIds : on_artifact_write(sid, id)
      [] op = "artifact:read" -> \E id \in InstantIds : on_artifact_read(sid, id)
      [] op = "policy:violation" ->
             \E id \in InstantIds, v \in {"", "pii"} : on_policy_violation(sid, id, v)
      [] OTHER -> FALSE

\* the root span of sid was started by session:start (not by session:resume)
StartedBySessionStart(sid) ==
    /\ sid \in DOMAIN sessions
    /\ sessions[sid].root_span # None
    /\ <<"amplifier.session.type", "resume">> \notin spans[sessions[sid].root_span].attrs

\* C2 (as claimed): once session:end has been handled for a session that
\* session:start started, the span manager holds no context for it and no
\* active-span-table entry for a span started in it.
C2_SessionEndLeavesNoEntries ==
    [][\A sid \in SessionIds :
          (last'.op = "session:end" /\ StartedBySessionStart(sid) /\ on_session_end(sid)) =>
              /\ sid \notin DOMAIN sessions'
              /\ \A k \in DOMAIN active_spans' : spans'[active_spans'[k]].sess # sid]_vars

\* C8: session:fork with child C and parent P changes nothing but the
\* fork-parent entry of C, which becomes P; session:start for C removes the
\* entry and starts C's root with the recorded parent (none if no entry).
C8_ForkEntryConsumedByStart ==
    [][\A c \in SessionIds :
          /\ \A p \in SessionIds :
                (last'.op = "session:fork" /\ on_session_fork(c, p)) =>
                    /\ fork_parent_map' = Put(fork_parent_map, c, p)
                    /\ UNCHANGED <<sessions, active_spans, spans, pending,
                                   start_times, session_start_times>>
          /\ (last'.op = "session:start" /\ on_session_start(c)) =>
                LET p == IF c \in DOMAIN fork_parent_map THEN fork_parent_map[c]
                         ELSE NoSession
                    n == Len(spans')
                    r == LiveRoot(p)
                IN /\ c \notin DOMAIN fork_parent_map'
                   /\ n = Len(spans) + 1
                   /\ sessions'[c].root_span = n
                   /\ spans'[n].parent = r
                   /\ (p # NoSession) <=>
                          (<<"amplifier.session.parent_id", p>> \in spans'[n].attrs)
                   /\ (p = NoSession) =>
                          \A q \in SessionIds :
                              <<"amplifier.session.parent_id", q>> \notin spans'[n].attrs]_vars

\* the fork of s2 from s1 was recorded and consumed: s2's root is a child of
\* s1's live root and the entry is gone
C8_Witness ==
    /\ last.op = "session:start"
    /\ "s2" \notin DOMAIN fork_parent_map
    /\ "s1" \in DOMAIN sessions /\ "s2" \in DOMAIN sessions
    /\ LET r == sessions["s2"].root_span
       IN /\ r # None
          /\ spans[r].parent = sessions["s1"].root_span
          /\ spans[r].parent # None
          /\ <<"amplifier.session.parent_id", "s1">> \in spans[r].attrs

\* C9: a start event of a family stores its correlation key as the session's
\* one pending entry of that family (replacing the previous one) and touches
\* no other entry; an end event of the family leaves no entry for the session.
C9_PendingSetByStartPoppedByEnd ==
    [][\A fam \in Families :
          /\ last'.op = StartOp[fam] =>
                \A sid \in SessionIds, tool \in ToolNames \cup {""}, id \in DataIds :
                    StartEvent(fam, sid, tool, id) =>
                        pending' = [pending EXCEPT
                                      ![fam] = Put(@, sid, CorrelationKey(fam, sid, tool, id))]
          /\ last'.op \in EndOps[fam] =>
                \A sid \in SessionIds :
                    EndEvent(fam, sid) =>
                        pending' = [pending EXCEPT ![fam] = Remove(@, sid)]]_vars

\* an LLM call was started in a live session and its response handled: the
\* span is ended and the pending entry is gone
C9_Witness ==
    /\ last.op = "llm:response"
    /\ pending["llm"] = Empty
    /\ \E i \in SpanIds :
          spans[i].name = "chat" /\ spans[i].ends = 1 /\ spans[i].sess \in DOMAIN sessions

\* C10: an event without session id, and an end event of a family with no
\* pending entry for the session, changes no table, ends no span and
\* returns continue.
C10_MissingIdOrEntryIsNoOp ==
    [][/\ EventNamed(last'.op, NoSession) => (UNCHANGED tables /\ last'.ret = Continue)
       /\ \A fam \in Families :
             last'.op \in EndOps[fam] =>
                 \A sid \in SessionIds :
                     (sid \notin DOMAIN pending[fam] /\ EndEvent(fam, sid)) =>
                         (UNCHANGED tables /\ last'.ret = Continue)]_vars

\* tool:post arrived in a live session that has no pending tool entry: the
\* only span is the unended root
C10_Witness ==
    /\ last.op = "tool:post"
    /\ last.ret = Continue
    /\ events = 2
    /\ Len(spans) = 1 /\ spans[1].name = "session" /\ spans[1].ends = 0
    /\ \A fam \in Families : pending[fam] = Empty

\* ======================================================================
\* Ending what is not there (Spec)
\* ======================================================================
managerTables == <<sessions, active_spans, spans>>

C12_EveryHandlerReturnsContinue ==
    last.op # "init" => last.ret = Continue

C14_FlagsOffIsInert ==
    /\ last.ret \in {"", Continue}
    /\ ~config.enabled =>
          /\ start_times = {}
          /\ session_start_times = {}
    /\ ~(config.enabled /\ config.traces) =>
          /\ spans = <<>>
          /\ sessions = Empty
          /\ active_spans = Empty
          /\ \A fam \in Families : pending[fam] = Empty
          /\ fork_parent_map = Empty

\* traces off, metrics on: session:start, session:fork and llm:request were
\* handled; only the session's start time was recorded
C14_Witness ==
    /\ config.enabled /\ ~config.traces /\ config.metrics
    /\ events = 3
    /\ last.op = "llm:request"
    /\ session_start_times = {"s1"}
    /\ spans = <<>>

\* ======================================================================
\* One session's scenario: session:start, execution:start, llm:request,
\* llm:response, execution:end, session:end (SpecScenario)
\* ======================================================================
\* every scripted event of the scenario's session has been delivered
ScenarioPlayed ==
    \A i \in 1..Len(script) : script[i][2] # ScenarioSession

SpansOf(sid) == {i \in SpanIds : spans[i].sess = sid}

\* C15: once the scenario of S has been played, no table holds an entry keyed
\* by S: session map, active-span table, pending tables, fork-parent map,
\* timing map and session-start-time map.
C15_ScenarioLeavesNoEntries ==
    ScenarioPlayed =>
        /\ ScenarioSession \notin DOMAIN sessions
        /\ \A k \in DOMAIN active_spans : k[2] # ScenarioSession
        /\ \A fam \in Families : ScenarioSession \notin DOMAIN pending[fam]
        /\ ScenarioSession \notin DOMAIN fork_parent_map
        /\ \A k \in start_times : k[2] # ScenarioSession
        /\ ScenarioSession \notin session_start_times

\* the scenario was played with metrics recorded, the other session's
\* llm:request in between: S's three spans are ended, the other session's
\* timing entry is still there
C15_Witness ==
    /\ ScenarioPlayed
    /\ script = <<EndOfScript>>
    /\ config.metrics
    /\ Cardinality(SpansOf(ScenarioSession)) = 3
    /\ \A i \in SpansOf(ScenarioSession) : spans[i].ends = 1
    /\ \E k \in start_times : k[2] = ForeignSession
    /\ ForeignSession \in DOMAIN pending["llm"]

\* C16 (as claimed): the scenario of S produces exactly 4 spans.
C16_ScenarioProducesFourSpans ==
    ScenarioPlayed => Cardinality(SpansOf(ScenarioSession)) = 4

\* C16 (amended): the scenario of S produces exactly 3 spans: the root, the
\* turn under the root and the LLM span under the turn, each ended once.
C16_ScenarioProducesThreeSpans ==
    ScenarioPlayed =>
        /\ Cardinality(SpansOf(ScenarioSession)) = 3
        /\ \E r, t, c \in SpansOf(ScenarioSession) :
              /\ spans[r].name = "session" /\ spans[r].parent = None
              /\ spans[t].name = "turn" /\ spans[t].parent = r
              /\ spans[c].name = "chat" /\ spans[c].parent = t
        /\ \A i \in SpansOf(ScenarioSession) : spans[i].ends = 1

\* the scenario was played on its own, without metrics: the three spans are
\* all there is
C16_Witness ==
    /\ script = <<EndOfScript>>
    /\ events = Len(Scenario)
    /\ ~config.metrics
    /\ Len(spans) = 3
    /\ spans[1].name = "session" /\ spans[2].name = "turn" /\ spans[3].name = "chat"
    /\ spans[1].status = "OK"
    /\ last.op = "session:end"

\* ======================================================================
\* A failing tool call: session:start, tool:pre, tool:error (SpecToolError)
\* ======================================================================
\* C17: once tool:pre and tool:error have been handled in the started session
\* S and error messages are filtered, S has exactly one tool span; it is ended
\* once with status ERROR, its description is the placeholder and not the
\* payload's message, and it carries the payload's error type.
C17_ToolErrorIsFiltered ==
    (ScenarioPlayed /\ should_filter(config, "error_messages")) =>
        LET T == {i \in SpansOf(ScenarioSession) : spans[i].name = "execute_tool"}
        IN /\ Cardinality(T) = 1
           /\ \A i \in T :
                 /\ spans[i].ends = 1
                 /\ spans[i].status = "ERROR"
                 /\ spans[i].desc = "[FILTERED]"
                 /\ spans[i].desc \notin ErrorArgs
                 /\ \A e \in ErrorTypes : <<"error.type", e>> \in spans[i].attrs

\* the failing tool call was played with filtering on: the tool span is ended
\* in error under the started root
C17_Witness ==
    /\ script = <<EndOfScript>>
    /\ last.op = "tool:error"
    /\ should_filter(config, "error_messages")
    /\ \E i \in SpansOf(ScenarioSession) :
          /\ spans[i].name = "execute_tool"
          /\ spans[i].status = "ERROR"
          /\ spans[i].parent = 1
          /\ spans[1].name = "session" /\ spans[1].ends = 0

\* ======================================================================
\* Tool payloads: the filter and size governance (SpecToolPayload)
\* ======================================================================
InputKeys == {"tool.input", "tool.input.original_size", "tool.input.limit",
              "tool.input.truncated"}

ResultKeys == {"tool.result", "tool.result.original_size", "tool.result.limit",
               "tool.result.truncated"}

\* the only attribute of sp under the given keys is `key` with the placeholder
OnlyPlaceholder(sp, keys, key) ==
    /\ \A a \in sp.attrs : a[1] \in keys => (a[1] = key /\ a[2] = FILTERED_PLACEHOLDER)
    /\ \E a \in sp.attrs : a[1] = key

\* C18: when the filter applies to tool parameters, tool results or error
\* messages, what a tool span carries for that kind is the placeholder alone,
\* with no size metadata and no dropped or truncated form, whatever the size of
\* the payload given and whatever the limit.
C18_FilterPrecedesSizeGovernance ==
    /\ \A i \in 1..Len(spans) :
          /\ _should_filter(config, "tool_parameters") =>
                \A a \in spans[i].attrs :
                    a[1] \in InputKeys => (a[1] = "tool.input" /\ a[2] = FILTERED_PLACEHOLDER)
          /\ _should_filter(config, "tool_results") =>
                \A a \in spans[i].attrs :
                    a[1] \in ResultKeys => (a[1] = "tool.result" /\ a[2] = FILTERED_PLACEHOLDER)
          /\ (_should_filter(config, "error_messages") /\ spans[i].status = "ERROR") =>
                spans[i].desc = FILTERED_PLACEHOLDER
    /\ (/\ last.op = "start_tool_span" /\ last.ret # None /\ last.arg[1] # Absent
        /\ _should_filter(config, "tool_parameters"))
           => OnlyPlaceholder(spans[last.ret], InputKeys, "tool.input")
    /\ (/\ last.op = "end_tool_span" /\ last.ret # None /\ last.arg[1] # Absent
        /\ _should_filter(config, "tool_results") /\ spans[last.ret].ends = 1)
           => OnlyPlaceholder(spans[last.ret], ResultKeys, "tool.result")

\* a tool span was started with an input larger than the configured limit
\* while tool parameters are filtered: it carries the placeholder
C18_Witness ==
    /\ config # NoConfig
    /\ should_filter(config, "tool_parameters")
    /\ last.op = "start_tool_span" /\ last.ret # None /\ last.arg[1] # Absent
    /\ utf8_len(last.arg[1][1]) > get_payload_limit(config, "tool_payload")
    /\ <<"tool.input", FILTERED_PLACEHOLDER>> \in spans[last.ret].attrs

\* ======================================================================
\* The filter decision (SpecFilter)
\* ======================================================================
\* the granular flag the configuration holds for a known kind
GranularFlag(sd, data_type) ==
    CASE data_type = "llm_content" -> sd.filter_llm_content
      [] data_type = "user_input" -> sd.filter_user_input
      [] data_type = "tool_parameters" -> sd.filter_tool_parameters
      [] data_type = "tool_results" -> sd.filter_tool_results
      [] data_type = "error_messages" -> sd.filter_error_messages

\* C19: the filter decision is FALSE when the master flag is off; with the
\* master flag on it is the kind's granular flag for the five known kinds and
\* TRUE for any other kind; a SpanManager without a config always decides TRUE.
C19_FilterDecision ==
    last.op \in {"should_filter", "_should_filter"} =>
        LET data_type == last.arg[1]
        IN IF config = NoConfig THEN last.ret = TRUE
           ELSE IF ~config.sensitive_data.filter_sensitive_data THEN last.ret = FALSE
           ELSE IF data_type \in KnownDataTypes
           THEN last.ret = GranularFlag(config.sensitive_data, data_type)
           ELSE last.ret = TRUE

\* the decision for a kind the filter map does not know, with the master flag
\* on and every granular flag off, was TRUE
C19_Witness ==
    /\ config # NoConfig
    /\ last.op = "should_filter"
    /\ last.arg[1] \notin KnownDataTypes
    /\ config.sensitive_data.filter_sensitive_data
    /\ \A t \in KnownDataTypes : ~GranularFlag(config.sensitive_data, t)
    /\ last.ret = TRUE

\* ======================================================================
\* process_payload (SpecPayload)
\* ======================================================================
\* the limit the configuration holds for a payload type
LimitOf(pl, payload_type) ==
    CASE payload_type = "llm_content" -> pl.max_llm_content_size
      [] payload_type = "tool_payload" -> pl.max_tool_payload_size
      [] payload_type = "error" -> pl.max_error_size
      [] OTHER -> pl.max_payload_size

\* C20 (as claimed): process_payload returns the content unchanged with empty
\* metadata exactly when the content is empty or its UTF-8 byte length is at
\* most the limit of its payload type; otherwise, in drop mode, it returns the
\* placeholder with the exact byte count and the limit, and the size metadata
\* (original size, limit, truncated) exactly when include_size_metadata is on.
C20_UnchangedExactlyWithinLimit ==
    last.op = "process_payload" =>
        LET content == last.arg[1]
            limit == LimitOf(config.payload_limits, last.arg[2])
            size == utf8_len(content)
            within == content = "" \/ size <= limit
            r == last.ret
        IN /\ (r.content = content /\ r.metadata = {}) <=> within
           /\ (~within /\ config.payload_limits.drop_large_payloads) =>
                 /\ r.content = "[PAYLOAD_DROPPED: size=" \o ToString(size)
                                    \o " bytes, limit=" \o ToString(limit) \o " bytes]"
                 /\ r.metadata = IF config.payload_limits.include_size_metadata
                                 THEN {<<"payload.original_size", size>>,
                                       <<"payload.limit", limit>>,
                                       <<"payload.truncated", TRUE>>}
                                 ELSE {}

\* C20 (amended): a content that is empty or within the limit of its payload
\* type is returned unchanged with empty metadata; a content over the limit
\* gets the size metadata exactly when include_size_metadata is on, in drop
\* mode the placeholder with the exact byte count and the limit, and a text
\* that differs from the content unless the content is self-describing.
C20_ProcessPayloadGoverned ==
    last.op = "process_payload" =>
        LET content == last.arg[1]
            limit == LimitOf(config.payload_limits, last.arg[2])
            size == utf8_len(content)
            within == content = "" \/ size <= limit
            r == last.ret
        IN /\ within => (r.content = content /\ r.metadata = {})
           /\ ~within =>
                 /\ r.metadata = IF config.payload_limits.include_size_metadata
                                 THEN {<<"payload.original_size", size>>,
                                       <<"payload.limit", limit>>,
                                       <<"payload.truncated", TRUE>>}
                                 ELSE {}
                 /\ config.payload_limits.drop_large_payloads =>
                       r.content = "[PAYLOAD_DROPPED: size=" \o ToString(size)
                                       \o " bytes, limit=" \o ToString(limit) \o " bytes]"
                 /\ r.content = content => content \in SelfDescribing

\* a content with no more characters than the limit but more bytes was
\* dropped, with its byte count in the metadata
C20_Witness ==
    /\ last.op = "process_payload"
    /\ config.payload_limits.drop_large_payloads
    /\ config.payload_limits.include_size_metadata
    /\ Len(last.arg[1]) <= LimitOf(config.payload_limits, last.arg[2])
    /\ utf8_len(last.arg[1]) > LimitOf(config.payload_limits, last.arg[2])
    /\ <<"payload.original_size", utf8_len(last.arg[1])>> \in last.ret.metadata
    /\ last.ret.content # last.arg[1]

\* ======================================================================
\* process_payload in truncate mode (SpecTruncate)
\* ======================================================================
\* C21: in truncate mode a content over the limit comes back as a prefix of
\* itself followed by the truncation suffix; the prefix has at most `limit`
\* bytes, so the result has at most limit plus the suffix's bytes, and the
\* number in the suffix is the content's byte length minus the prefix's.
C21_TruncateKeepsPrefixWithinLimit ==
    (/\ last.op = "process_payload"
     /\ ~config.payload_limits.drop_large_payloads
     /\ utf8_len(last.arg[1]) > LimitOf(config.payload_limits, last.arg[2])) =>
        LET content == last.arg[1]
            limit == LimitOf(config.payload_limits, last.arg[2])
            result == last.ret.content
        IN \E k \in 0..Len(content) :
              LET prefix == SubSeq(content, 1, k)
                  suffix == SubSeq(result, k + 1, Len(result))
              IN /\ Len(result) > k
                 /\ SubSeq(result, 1, k) = prefix
                 /\ suffix = "...[TRUNCATED: "
                                 \o ToString(utf8_len(content) - utf8_len(prefix))
                                 \o " bytes removed]"
                 /\ utf8_len(prefix) <= limit
                 /\ utf8_len(result) <= limit + utf8_len(suffix)

\* a content of more than 200 characters was cut twice and keeps a prefix that
\* is not empty
C21_Witness ==
    /\ last.op = "process_payload"
    /\ ~config.payload_limits.drop_large_payloads
    /\ Len(last.arg[1]) > 200
    /\ utf8_len(SubSeq(last.arg[1], 1, Len(last.arg[1]) - 100))
           > LimitOf(config.payload_limits, last.arg[2])
    /\ SubSeq(last.ret.content, 1, 1) = SubSeq(last.arg[1], 1, 1)
    /\ Len(last.ret.content) < Len(last.arg[1])

\* ======================================================================
\* The MetricsRecorder timing maps (SpecMetrics)
\* ======================================================================
\* C22: record_duration(key) removes the entry of key from the timing map and
\* nothing else, record_session_ended(S) the entry of S from the session-start
\* map and nothing else; each returns the elapsed time and records it when the
\* entry was there, and returns None, records nothing and changes nothing when
\* it was not; no per-call timing method changes the session-start map and no
\* session method changes the timing map.
C22_TimingMapsAreSeparate ==
    [][LET key == last'.arg[1]
       IN /\ last'.op \in {"start_timing", "record_duration"} =>
                session_start_times' = session_start_times
          /\ last'.op \in {"record_session_started", "record_session_ended"} =>
                start_times' = start_times
          /\ last'.op = "record_duration" =>
                /\ start_times' = start_times \ {key}
                /\ IF key \in start_times
                   THEN /\ last'.ret.duration = Elapsed
                        /\ last'.ret.recorded = {"gen_ai.client.operation.duration"}
                   ELSE /\ last'.ret.duration = NoDuration
                        /\ last'.ret.recorded = {}
                        /\ start_times' = start_times
          /\ last'.op = "record_session_ended" =>
                /\ session_start_times' = session_start_times \ {key}
                /\ IF key \in session_start_times
                   THEN /\ last'.ret.duration = Elapsed
                        /\ last'.ret.recorded = {"amplifier.session.duration"}
                   ELSE /\ last'.ret.duration = NoDuration
                        /\ last'.ret.recorded = {}
                        /\ session_start_times' = session_start_times]_vars

\* record_duration found no timing entry for a key that has a session-start
\* entry, while another key's timing entry is kept: it returned None
C22_Witness ==
    /\ last.op = "record_duration"
    /\ last.ret.duration = NoDuration
    /\ last.arg[1] \in session_start_times
    /\ start_times # {}

\* ======================================================================
\* mount with an unknown exporter selector (SpecMount)
\* ======================================================================
\* C23: mount with an exporter selector that is not console, otlp-http,
\* otlp-grpc or file raises a configuration error whenever the flags make it
\* set up an export pipeline: enabled, with traces or metrics on.
C23_UnknownExporterRaises ==
    (/\ last.op = "mount"
     /\ config.exporter \notin {"console", "otlp-http", "otlp-grpc", "file"}
     /\ config.enabled /\ (config.traces \/ config.metrics))
        => last.ret.raised # ""

\* ======================================================================
\* Parent selection (Spec)
\* ======================================================================
\* the context the session has, or a fresh one
ContextOf(sid) == IF sid \in DOMAIN sessions THEN sessions[sid] ELSE SessionSpanContext

\* the step started exactly one span, under the given parent
StartedUnder(parent) ==
    /\ Len(spans') = Len(spans) + 1
    /\ spans'[Len(spans')].parent = parent
    /\ spans'[Len(spans')].ends = 0

\* the step started no span and registered no correlation key
StartedNothing == Len(spans') = Len(spans) /\ active_spans' = active_spans

\* C24: a new turn span is a child of the session's root; a new tool span of
\* the current tool if any, else of the current turn, else of the root; a new
\* generic child span of the current turn if any, else of the root, never of a
\* tool.  When the context holds none of these (or, for a child span, when
\* there is no context) the call starts no span and registers no key.
C24_ParentSelection ==
    [][\A sid \in SessionIds :
          LET ctx == ContextOf(sid)
          IN /\ StartTurnSpan(sid) =>
                   IF ctx.root_span # None THEN StartedUnder(ctx.root_span)
                   ELSE StartedNothing
             /\ (\E t \in ToolNames, k \in KeyArgs : StartToolSpan(sid, t, Absent, k)) =>
                   IF ctx.current_tool # None THEN StartedUnder(ctx.current_tool)
                   ELSE IF ctx.current_turn # None THEN StartedUnder(ctx.current_turn)
                   ELSE IF ctx.root_span # None THEN StartedUnder(ctx.root_span)
                   ELSE StartedNothing
             /\ (\E n \in ChildNames, k \in KeyArgs : StartChildSpan(sid, n, k)) =>
                   IF sid \notin DOMAIN sessions THEN StartedNothing
                   ELSE IF ctx.current_turn # None
                   THEN StartedUnder(ctx.current_turn)
                            /\ spans[ctx.current_turn].name = "turn"
                   ELSE IF ctx.root_span # None
                   THEN StartedUnder(ctx.root_span)
                            /\ spans[ctx.root_span].name = "session"
                   ELSE StartedNothing]_vars

\* a generic child span was started under the root while the session had a
\* current tool
C24_Witness ==
    \E i, j \in SpanIds :
       /\ spans[i].name = "child" /\ spans[j].name = "tool"
       /\ j < i /\ spans[j].ends = 0 /\ spans[j].sess = spans[i].sess
       /\ spans[i].sess \in DOMAIN sessions
       /\ sessions[spans[i].sess].current_tool = j
       /\ spans[i].parent = sessions[spans[i].sess].root_span

\* ======================================================================
\* Turn counting (Spec)
\* ======================================================================
\* the value of attribute key on span i, as a set: empty when it is not set
AttributeOf(sp, i, key) == {a[2] : a \in {b \in sp[i].attrs : b[1] = key}}

\* C25: turn_count is 0 right after start_session_span; start_turn_span that
\* returns a span adds exactly 1 and the new span carries the new value as
\* amplifier.turn.number; start_turn_span that returns None and every other
\* operation leave it as it was; end_session_span sets session.turns on the
\* root span to the value turn_count has at that moment.
C25_TurnCount ==
    [][\A sid \in SessionIds :
          LET ctx == ContextOf(sid)
              after == IF sid \in DOMAIN sessions' THEN sessions'[sid]
                       ELSE SessionSpanContext
          IN /\ (\E p \in SessionArgs : StartSessionSpan(sid, p)) => after.turn_count = 0
             /\ StartTurnSpan(sid) =>
                   IF ctx.root_span # None
                   THEN /\ after.turn_count = ctx.turn_count + 1
                        /\ Len(spans') = Len(spans) + 1
                        /\ AttributeOf(spans', Len(spans'), "amplifier.turn.number")
                               = {after.turn_count}
                   ELSE after.turn_count = ctx.turn_count /\ Len(spans') = Len(spans)
             /\ EndSessionSpan(sid, "") =>
                   (ctx.root_span # None =>
                       /\ AttributeOf(spans', ctx.root_span, "session.turns")
                              = {ctx.turn_count}
                       /\ spans'[ctx.root_span].ends = 1)
             /\ (sid \in DOMAIN sessions' /\ after.turn_count # ctx.turn_count) =>
                   \/ StartTurnSpan(sid)
                   \/ \E p \in SessionArgs : StartSessionSpan(sid, p)]_vars

\* a session with two turns was ended: its root span carries session.turns 2
\* and its second turn span carries turn number 2
C25_Witness ==
    \E r, t \in SpanIds :
       /\ spans[r].name = "session" /\ spans[r].ends = 1
       /\ AttributeOf(spans, r, "session.turns") = {2}
       /\ spans[t].name = "turn" /\ spans[t].parent = r
       /\ AttributeOf(spans, t, "amplifier.turn.number") = {2}

\* ======================================================================
\* end_tool_span with a correlation key (Spec)
\* ======================================================================
\* C26: end_tool_span given a correlation key ends the span registered under
\* that key and no other span: a span that is not registered under the key
\* is left as it was, so current_tool locates the span only when no key is
\* given.
C26_KeyedEndTouchesOnlyKeyedSpan ==
    [][\A sid \in SessionIds, k \in DirectKeys :
          EndToolSpan(sid, k, Absent, "") =>
             \A i \in SpanIds : i # Get(active_spans, k) => spans'[i] = spans[i]]_vars

\* ======================================================================
\* Alternative end events (SpecHook)
\* ======================================================================
\* the families closed by either of two end events
TwoEnded == {"llm", "tool", "approval"}

\* C27: in a family with two alternative end events, the end event that finds
\* the session's pending entry consumes it and closes the span registered
\* under its key; an end event that finds no entry (the alternative arriving
\* after the first one) ends no span and changes no table.
C27_FirstEndClosesOtherIsNoOp ==
    [][\A fam \in TwoEnded :
          last'.op \in EndOps[fam] =>
              \A sid \in SessionIds :
                  EndEvent(fam, sid) =>
                      IF sid \in DOMAIN pending[fam]
                      THEN /\ sid \notin DOMAIN pending'[fam]
                           /\ LET key == pending[fam][sid]
                              IN key \in DOMAIN active_spans =>
                                    /\ spans'[active_spans[key]].ends = 1
                                    /\ key \notin DOMAIN active_spans'
                      ELSE UNCHANGED tables]_vars

\* ======================================================================
\* Independence of sessions (SpecIndependent)
\* ======================================================================
\* the other of the two sessions
Other(sid) == CHOOSE t \in SessionIds : t # sid

\* C28: for two distinct sessions without fork relation, every interleaving
\* of their event sequences leaves each session with the context, pending
\* entries and started and ended spans that its events alone leave it with,
\* and a handler invoked for one session changes nothing the hook holds for
\* the other.
C28_SessionsAreIndependent ==
    /\ [](script = <<EndOfScript>> =>
              /\ SessionView("s1") = alone[1]["s1"]
              /\ SessionView("s2") = alone[2]["s2"])
    /\ [][\A sid \in SessionIds :
             (script # <<>> /\ Head(script)[2] = sid) =>
                 SessionView(Other(sid))' = SessionView(Other(sid))]_vars

\* an interleaving in which the two sessions' tool calls overlapped has been
\* delivered: both sessions hold spans and the first session's last span was
\* started after a span of the second
C28_Witness ==
    /\ script = <<EndOfScript>>
    /\ \E i, j, k \in SpanIds :
          /\ i < j /\ j < k
          /\ spans[i].sess = "s1" /\ spans[j].sess = "s2" /\ spans[k].sess = "s1"
          /\ spans[i].name = "session" /\ spans[k].name = "execute_tool"

\* ======================================================================
\* The fork-parent map (SpecHook)
\* ======================================================================
\* C29: an entry of the fork-parent map is removed only by a session:start
\* for its child; session:fork only adds or replaces an entry; every other
\* event, session:resume and session:end included, leaves the map as it is;
\* session:resume for a session starts a root span without parent, a trace of
\* its own, also when the map holds an entry for that session.
C29_ForkEntryRemovedOnlyByStart ==
    [][/\ \A c \in DOMAIN fork_parent_map :
             c \notin DOMAIN fork_parent_map' =>
                 last'.op = "session:start" /\ on_session_start(c)
       /\ last'.op \notin {"session:start", "session:fork"} =>
             fork_parent_map' = fork_parent_map
       /\ last'.op = "session:resume" =>
             \A c \in SessionIds :
                 on_session_resume(c) =>
                     /\ Len(spans') = Len(spans) + 1
                     /\ sessions'[c].root_span = Len(spans')
                     /\ spans'[Len(spans')].name = "session"
                     /\ spans'[Len(spans')].parent = None
                     /\ spans'[Len(spans')].trace = Len(spans')]_vars

\* a session recorded as the fork of a session with a live root was resumed:
\* its root has no parent and the fork entry is still there
C29_Witness ==
    /\ last.op = "session:resume"
    /\ \E c \in DOMAIN fork_parent_map :
          /\ fork_parent_map[c] \in DOMAIN sessions
          /\ sessions[fork_parent_map[c]].root_span # None
          /\ c \in DOMAIN sessions
          /\ sessions[c].root_span # None
          /\ spans[sessions[c].root_span].parent = None
          /\ spans[sessions[c].root_span].ends = 0

\* ======================================================================
\* Instant events (SpecHook)
\* ======================================================================
InstantOps == {"context:compaction", "context:include", "artifact:write",
               "artifact:read", "policy:violation"}

\* C30: an instant-event handler for a session whose context holds a root
\* span starts exactly one span, a child of the session's current turn or
\* root, and ends it before returning; no other span changes and the contexts,
\* the active-span table and the pending tables are as they were.  For
\* policy:violation the span's status is ERROR and its description the
\* violation type of the payload ("Error" when that is empty); the other
\* instant events set no error status.
C30_InstantSpanStartedAndEnded ==
    [][\A sid \in SessionIds :
          (/\ last'.op \in InstantOps
           /\ EventNamed(last'.op, sid)
           /\ get_session_span(sessions, sid) # None) =>
              LET n == Len(spans')
                  ctx == sessions[sid]
              IN /\ n = Len(spans) + 1
                 /\ \A i \in 1..Len(spans) : spans'[i] = spans[i]
                 /\ spans'[n].sess = sid
                 /\ spans'[n].ends = 1
                 /\ spans'[n].parent = IF ctx.current_turn # None
                                       THEN ctx.current_turn ELSE ctx.root_span
                 /\ active_spans' = active_spans
                 /\ pending' = pending
                 /\ sessions' = sessions
                 /\ IF last'.op = "policy:violation"
                    THEN /\ spans'[n].status = "ERROR"
                         /\ \A id \in InstantIds, v \in {"", "pii"} :
                               on_policy_violation(sid, id, v) =>
                                   spans'[n].desc = IF v # "" THEN v ELSE "Error"
                    ELSE spans'[n].status # "ERROR"]_vars

\* a policy violation was recorded in a session with a live root: the span is
\* ended with status ERROR and the violation type, and no key stays
\* registered
C30_Witness ==
    /\ last.op = "policy:violation"
    /\ active_spans = Empty
    /\ \E i \in SpanIds :
          /\ spans[i].name = "policy_violation"
          /\ spans[i].ends = 1
          /\ spans[i].status = "ERROR" /\ spans[i].desc = "pii"
          /\ spans[i].sess \in DOMAIN sessions
          /\ spans[i].parent = sessions[spans[i].sess].root_span

\* ======================================================================
\* Termination of the truncation (SpecTerminate)
\* ======================================================================
\* C31: process_payload in truncate mode terminates for every content and every
\* integer limit the configuration accepts, 0 and negative limits included:
\* a call that has entered the chunk-removal loop returns.
C31_TruncationTerminates == (last.op = InLoop) ~> (last.op = "process_payload")

\* ======================================================================
\* The tool stack (Spec)
\* ======================================================================
\* C32: in every session context a non-empty tool_stack implies current_tool
\* is not None, whatever SpanManager operations were called and in whatever
\* order.
C32_StackImpliesCurrentTool ==
    \A sid \in DOMAIN sessions :
        sessions[sid].tool_stack # <<>> => sessions[sid].current_tool # None

\* a tool nested in another was ended out of order, through its correlation
\* key and end_child_span: the stack still holds the outer tool and
\* current_tool the ended inner one
C32_Witness ==
    \E sid \in DOMAIN sessions :
        /\ sessions[sid].tool_stack # <<>>
        /\ sessions[sid].current_tool # None
        /\ spans[sessions[sid].current_tool].ends = 1
        /\ spans[sessions[sid].tool_stack[1]].ends = 0

\* ======================================================================
\* The active-span table (Spec)
\* ======================================================================
\* C33: every span stored in the active-span table is unended: a span leaves
\* the table no later than it is ended, by end_child_span, by end_tool_span
\* with or without a correlation key, or by end_session_span.
C33_ActiveSpansAreUnended ==
    \A key \in DOMAIN active_spans : spans[active_spans[key]].ends = 0

C35_PendingKeysAreActive ==
    \A fam \in Families : \A sid \in DOMAIN pending[fam] :
        /\ pending[fam][sid] \in DOMAIN active_spans
        /\ spans[active_spans[pending[fam][sid]]].ends = 0

\* ======================================================================
\* Two starts of a family before its ends (SpecOverwrite)
\* ======================================================================
\* session:start, then two start events of one family, then two end events
\* of that family, all for one session
OverwriteScripts ==
    UNION {{<<<<"session:start", ScenarioSession>>,
              <<StartOp[fam], ScenarioSession>>, <<StartOp[fam], ScenarioSession>>,
              <<e1, ScenarioSession>>, <<e2, ScenarioSession>>, EndOfScript>> :
                e1 \in EndOps[fam], e2 \in EndOps[fam]} : fam \in Families}

InitOverwrite ==
    /\ sessions = Empty
    /\ active_spans = Empty
    /\ spans = <<>>
    /\ pending = [f \in Families |-> Empty]
    /\ fork_parent_map = Empty
    /\ start_times = {}
    /\ session_start_times = {}
    /\ last = NoLast
    /\ events = 0
    /\ matching = <<>>
    /\ alone = <<>>
    /\ script \in OverwriteScripts
    /\ config = [enabled |-> TRUE, traces |-> TRUE, metrics |-> TRUE,
                 sensitive_data |-> SensitiveDataConfig,
                 payload_limits |-> PayloadLimitsConfig]

NextOverwrite ==
    \/ on_session_start(ScenarioSession)
    \/ \E fam \in Families, tool \in ToolNames \cup {""}, id \in DataIds :
          StartEvent(fam, ScenarioSession, tool, id)
    \/ \E fam \in Families : EndEvent(fam, ScenarioSession)

SpecOverwrite == InitOverwrite /\ [][NextOverwrite]_vars

\* C36: when two start events of a family arrive for a live session before
\* any end event of the family, then after both end events both spans have
\* been ended and neither is left in the active-span table.
C36_OverwriteOrphansNoSpan ==
    script = <<EndOfScript>> =>
        /\ active_spans = Empty
        /\ \A i \in SpanIds : spans[i].name # "session" => spans[i].ends = 1

\* ======================================================================
\* Events after session:end (SpecHook)
\* ======================================================================
\* session:end has been processed for sid and no session:start or
\* session:resume since: a root span of sid has been ended and sid has no
\* context
Ended(sid) ==
    /\ sid \notin DOMAIN sessions
    /\ \E i \in SpanIds :
          spans[i].name = "session" /\ spans[i].sess = sid /\ spans[i].ends = 1

\* C37: once session:end has been processed for a session, a later event for
\* it other than session:start or session:resume adds no entry for it to the
\* session map, the active-span table, a pending table or the timing map.
C37_NoEntriesAfterSessionEnd ==
    [][\A sid \in SessionIds :
          (/\ Ended(sid)
           /\ last'.op \notin {"session:start", "session:resume"}
           /\ EventNamed(last'.op, sid)) =>
              /\ sid \notin DOMAIN sessions'
              /\ \A key \in DOMAIN active_spans' :
                    key[2] = sid => key \in DOMAIN active_spans
              /\ \A fam \in Families :
                    sid \in DOMAIN pending'[fam] => sid \in DOMAIN pending[fam]
              /\ \A key \in start_times' : key[2] = sid => key \in start_times]_vars

\* the handlers that consume a pending key of the two timed families
ConsumingOps == [llm |-> {"llm:response", "provider:error"},
                 tool |-> {"tool:post", "tool:error"}]

\* C38: with metrics enabled, a handler that consumes a pending LLM or tool
\* correlation key (llm:response, provider:error, tool:post, tool:error) also
\* removes the start-time entry recorded under that key, in the same
\* invocation.
C38_ConsumedKeyLosesStartTime ==
    [][\A fam \in DOMAIN ConsumingOps, sid \in SessionIds :
          (/\ last'.op \in ConsumingOps[fam]
           /\ MetricsOn
           /\ sid \in DOMAIN pending[fam]
           /\ sid \notin DOMAIN pending'[fam]) =>
              pending[fam][sid] \notin start_times']_vars

\* ======================================================================
\* Tool content never reaches a tool span (SpecToolPayload)
\* ======================================================================
\* filtering is on for tool parameters, tool results and error messages, or
\* the SpanManager has no configuration
FiltersToolContent(cfg) ==
    /\ _should_filter(cfg, "tool_parameters")
    /\ _should_filter(cfg, "tool_results")
    /\ _should_filter(cfg, "error_messages")

\* payloads and error texts a second run may carry instead
OtherPayloads == PayloadArgs \cup {Given("another payload")}

OtherErrors == ErrorArgs \cup {"another error"}

\* the manager state is the one the call m leaves
Leaves(m) ==
    /\ sessions' = m.sessions
    /\ active_spans' = m.active_spans
    /\ spans' = m.spans

\* C39: with tool parameters, tool results and error messages filtered (or no
\* configuration), a start_tool_span / end_tool_span call leaves the same
\* spans (attributes and status included) as the same call carrying any other
\* content of tool_input, result and error text with the same presence or
\* absence of each.
C39_ToolContentNeverReachesSpan ==
    [][FiltersToolContent(config) =>
         /\ last'.op = "start_tool_span" =>
               \A k \in PayloadKeys :
                   PayloadStartTool(ScenarioSession, last'.arg[1], k) =>
                       \A tool_input \in OtherPayloads :
                           ((tool_input = Absent) <=> (last'.arg[1] = Absent)) =>
                               Leaves(start_tool_span(Cur, config, ScenarioSession,
                                                      "bash", tool_input, k))
         /\ last'.op = "end_tool_span" =>
               \A k \in PayloadKeys :
                   PayloadEndTool(ScenarioSession, k, last'.arg[1], last'.arg[2]) =>
                       \A result \in OtherPayloads, error \in OtherErrors :
                           (/\ (result = Absent) <=> (last'.arg[1] = Absent)
                            /\ (error = "") <=> (last'.arg[2] = "")) =>
                               Leaves(end_tool_span(Cur, config, ScenarioSession, k,
                                                    error = "", result, error))]_vars

\* a tool span started with an input and ended with a result and an error
\* text, all three filtered
C39_Witness ==
    /\ FiltersToolContent(config)
    /\ last.op = "end_tool_span" /\ last.ret # None
    /\ last.arg[1] = Given("aé€") /\ last.arg[2] = "boom"
    /\ {<<"tool.has_input", TRUE>>, <<"tool.input", FILTERED_PLACEHOLDER>>,
        <<"tool.has_result", TRUE>>, <<"tool.result", FILTERED_PLACEHOLDER>>}
           \subseteq spans[last.ret].attrs
    /\ spans[last.ret].status = "ERROR"
    /\ spans[last.ret].desc = FILTERED_PLACEHOLDER
    /\ spans[last.ret].ends = 1

\* ======================================================================
\* Free text carried by events (SpecHook)
\* ======================================================================
\* sensitive-data filtering fully enabled: the master switch and every flag
FiltersEverything(cfg) ==
    /\ cfg.sensitive_data.filter_sensitive_data
    /\ \A data_type \in {"llm_content", "user_input", "tool_parameters",
                         "tool_results", "error_messages"} :
          should_filter(cfg, data_type)

\* texts a second event sequence may carry instead
OtherTexts == ErrorArgs \cup ReasonArgs \cup {"another text"}

\* C40: with sensitive-data filtering fully enabled, a handler given an event
\* with a free-text field (error.message of tool:error and provider:error, the
\* reason of approval:denied and of cancel:requested) leaves the same spans,
\* and the same hook state, as the same handler given any other text in that
\* field (same presence): no such text reaches a span attribute or a status
\* description unfiltered.
C40_FreeTextNeverReachesSpan ==
    [][FiltersEverything(config) =>
         \A sid \in SessionArgs, text \in ErrorArgs \cup ReasonArgs, other \in OtherTexts :
             ((text = "") <=> (other = "")) =>
                 /\ \A etype \in ErrorTypes :
                       on_tool_error(sid, etype, text) => on_tool_error(sid, etype, other)
                 /\ on_provider_error(sid, text) => on_provider_error(sid, other)
                 /\ on_approval_denied(sid, text) => on_approval_denied(sid, other)
                 /\ \A id \in UntimedIds :
                       on_cancel_requested(sid, id, text) =>
                           on_cancel_requested(sid, id, other)]_vars

====
